---- MODULE Spec2Model ----
(***************************************************************************)
(* Model of the native-handle object bridge of PROJ-JNI                    *)
(* (src/main/cpp/bindings.cpp): indirection blocks holding one shared      *)
(* pointer, the `ptr` and `database` handle fields of the Java objects,    *)
(* the wrapper identity cache and the Context / database lifecycle.        *)
(***************************************************************************)
EXTENDS Integers, FiniteSets, Sequences, TLC

\* ------------------------------------------------------------------ bounds
MaxWrap == 2        \* SharedPointer wrappers the Java side may construct
MaxObj  == 1        \* native BaseObject identities
MaxAddr == 2        \* addresses calloc may hand out
MaxCtx  == 1        \* Context objects
MaxFac  == 1        \* AuthorityFactory objects
MaxTr   == 1        \* Transform objects
MaxDb   == 1        \* native DatabaseContext identities
MaxCand == 2        \* candidates createOperations may return
MaxOpAddr == 3      \* addresses calloc may hand out while operations are searched

\* ------------------------------------------------------ Java-side objects
Wrappers   == {"sp"} \X (1..MaxWrap)
Contexts   == {"cx"} \X (1..MaxCtx)
Factories  == {"af"} \X (1..MaxFac)
Transforms == {"tr"} \X (1..MaxTr)
Resources  == Wrappers \cup Contexts \cup Factories \cup Transforms
None       == <<"none", 0>>          \* Java null / no wrapper

\* ------------------------------------------------- native shared objects
Objs    == {"obj"} \X (1..MaxObj)    \* osgeo::proj::util::BaseObject
Dbs     == {"db"}  \X (1..MaxDb)     \* osgeo::proj::io::DatabaseContext
FacObjs == {"fac"} \X (1..MaxFac)    \* osgeo::proj::io::AuthorityFactory
Ops     == {"op"}  \X (1..MaxCand)   \* osgeo::proj::operation::CoordinateOperation
Shared  == Objs \cup Dbs \cup FacObjs \cup Ops
Null    == <<"nil", 0>>              \* empty std::shared_ptr
Free    == <<"free", 0>>             \* address not allocated
Thrown  == <<"exc", 0>>              \* a Java method that threw
Miss    == <<"miss", 0>>             \* NoSuchAuthorityCodeException thrown
Addrs   == 1..MaxAddr

VARIABLES
    heap,       \* address -> the shared pointer stored in the block, or Free
    use_count,  \* Shared -> std::shared_ptr use_count()
    facDb,      \* FacObjs -> the DatabaseContext an AuthorityFactory holds
    ptr,        \* Resources -> NativeResource.ptr (jlong)
    database,   \* Contexts -> Context.database (jlong)
    born,       \* Java objects constructed so far
    pjContexts, \* live PJ_CONTEXT structures (by address)
    pjs,        \* live PJ structures (by address)
    arrayCriticalDoesCopies,    \* the std::atomic_flag of that name
    last,       \* what the last bridge call did
    cascade,    \* the type cascade of specific_subclass, step by step
    pj_errno,   \* PJ address -> the error state proj_errno reads
    cs,         \* what the last CompoundCS call was given and answered
    vec,        \* what the last getVectorSize / getVectorElement call was given and answered
    str,        \* what the last call did with the characters of its string argument
    race        \* one wrapper and the threads that release or destroy it

vars == <<heap, use_count, facDb, ptr, database, born, pjContexts, pjs,
          arrayCriticalDoesCopies, last, cascade, pj_errno, cs, vec, str, race>>

\* The variables that only the calls modelled on their own write.
apart == <<cs, vec, str, race>>

\* The native memory a helper works on.
Mem == [heap |-> heap, use |-> use_count, facDb |-> facDb]

\* std::shared_ptr copy assignment: one more owner.
Retain(m, x) ==
    IF x = Null THEN m ELSE [m EXCEPT !.use[x] = @ + 1]

\* std::shared_ptr reset / destructor: one owner less; the last owner of an
\* AuthorityFactory destroys it, which drops its DatabaseContext reference.
Drop(m, x) ==
    IF x = Null THEN m
    ELSE LET u == [m.use EXCEPT ![x] = @ - 1] IN
         IF x \in FacObjs /\ u[x] = 0 /\ m.facDb[x] # Null
         THEN [m EXCEPT !.use   = [u EXCEPT ![m.facDb[x]] = @ - 1],
                        !.facDb = [m.facDb EXCEPT ![x] = Null]]
         ELSE [m EXCEPT !.use = u]

\* Addresses calloc may return: 0 (out of memory) or an unallocated one.
calloc(m) ==
    LET free == {a \in DOMAIN m.heap : m.heap[a] = Free} IN
    {0} \cup {a \in free : \A b \in free : a <= b}

\* A bridge call that has done nothing yet.
Call(op, self) ==
    [op |-> op, self |-> self, exc |-> "none", result |-> None,
     deref |-> {}, allocd |-> {}, freed |-> {}, destroyed |-> {},
     asked |-> Null, found |-> Null, made |-> 0, factory |-> Null,
     unwrapped |-> Null, escaped |-> FALSE, arg |-> "none", order |-> <<>>,
     dbOf |-> None, db |-> Null, dbCreated |-> FALSE,
     path |-> "none", pending |-> "none", info |-> <<>>,
     native |-> 0, err |-> 0, operations |-> <<>>]

wrap_shared_ptr_noCount(m, object, a) ==
    IF a # 0
    THEN [mem |-> [m EXCEPT !.heap[a] = object], ptr |-> a]
    ELSE [mem |-> m, ptr |-> 0]

\* wrap_shared_ptr: `a` is what calloc returned.
wrap_shared_ptr(m, object, a) ==
    IF a # 0
    THEN [mem |-> Retain([m EXCEPT !.heap[a] = object], object), ptr |-> a]
    ELSE [mem |-> m, ptr |-> 0]

\* unwrap_shared_ptr: the shared pointer stored at p (p is not verified).
unwrap_shared_ptr(m, p) ==
    IF p \in DOMAIN m.heap /\ m.heap[p] # Free THEN m.heap[p] ELSE Null

release_shared_ptr_keepBlock(m, p) ==
    IF p # 0 /\ p \in DOMAIN m.heap /\ m.heap[p] # Free
    THEN [mem |-> Drop(m, m.heap[p]), deref |-> {p}, freed |-> {}]
    ELSE [mem |-> m, deref |-> {}, freed |-> {}]

\* release_shared_ptr: frees the block at p unless p is zero.
release_shared_ptr(m, p) ==
    IF p # 0
    THEN IF p \in DOMAIN m.heap /\ m.heap[p] # Free
         THEN [mem   |-> [Drop(m, m.heap[p]) EXCEPT !.heap[p] = Free],
               deref |-> {p}, freed |-> {p}]
         ELSE [mem |-> m, deref |-> {p}, freed |-> {p}]   \* stale address
    ELSE [mem |-> m, deref |-> {}, freed |-> {}]

get_and_clear_ptr_noClear(p, object) ==
    [ptr |-> p[object], fields |-> p]

\* get_and_clear_ptr: reads the ptr field and sets it to zero.
get_and_clear_ptr(p, object) ==
    [ptr |-> p[object], fields |-> [p EXCEPT ![object] = 0]]

get_and_unwrap_ptr_noThrow(m, p, object) ==
    LET x == IF object # None /\ p[object] # 0
             THEN unwrap_shared_ptr(m, p[object]) ELSE Null
    IN  [threw |-> FALSE, obj |-> x, mem |-> Retain(m, x),
         deref |-> IF x # Null THEN {p[object]} ELSE {}]

get_and_unwrap_ptr_noCopy(m, p, object) ==
    IF object # None /\ p[object] # 0
    THEN [threw |-> FALSE, obj |-> unwrap_shared_ptr(m, p[object]), mem |-> m,
          deref |-> {p[object]}]
    ELSE [threw |-> TRUE, obj |-> Null, mem |-> m, deref |-> {}]

get_and_unwrap_ptr_noCheck(m, p, object) ==
    LET q == IF object # None THEN p[object] ELSE 0
        x == unwrap_shared_ptr(m, q)
    IN  [threw |-> x = Null, obj |-> x, mem |-> Retain(m, x), deref |-> {q}]

\* get_and_unwrap_ptr: a copy of the shared pointer behind object's ptr
\* field, or std::invalid_argument when object is null or its field zero.
get_and_unwrap_ptr(m, p, object) ==
    IF object # None /\ p[object] # 0
    THEN LET x == unwrap_shared_ptr(m, p[object]) IN
         [threw |-> FALSE, obj |-> x, mem |-> Retain(m, x), deref |-> {p[object]}]
    ELSE [threw |-> TRUE, obj |-> Null, mem |-> m, deref |-> {}]

\* log: ok is whether every JNI call of the logging sequence succeeded;
\* otherwise a Java exception is pending and std::exception is thrown.
log(ok) ==
    [threw |-> ~ok, exc |-> IF ok THEN "none" ELSE "LoggingError"]

\* rethrow_as_java_exception: keeps an exception that is already pending.
rethrow_as_java_exception(pending, type) ==
    IF pending = "none" THEN type ELSE pending

\* What the JNI calls that build a Java exception with arguments meet:
\* all succeed, FindClass, GetMethodID or NewObject fails (leaving the
\* exception of that call pending), or NewStringUTF of an argument fails,
\* after which NewObject is entered with OutOfMemoryError pending and
\* returns either null or an object that is then thrown.
JniOutcomes ==
    {"ok", "FindClass", "GetMethodID", "NewObject", "NewStringUTF", "NewStringUTF+Throw"}

JniError(j) ==
    CASE j = "FindClass"   -> "NoClassDefFoundError"
      [] j = "GetMethodID" -> "NoSuchMethodError"
      [] OTHER             -> "OutOfMemoryError"

\* rethrow_as_java_exception for NoSuchAuthorityCodeException: the exception
\* left pending, the one that was pending when Throw was reached, and the
\* authority and code given to the constructor.  There is no test of
\* ExceptionCheck.
rethrow_as_java_exception_NoSuch(j) ==
    IF j \in {"ok", "NewStringUTF+Throw"}
    THEN [exc     |-> "NoSuchAuthorityCodeException",
          pending |-> IF j = "ok" THEN "none" ELSE JniError(j),
          info    |-> IF j = "ok" THEN <<"getAuthority", "getAuthorityCode">> ELSE <<>>]
    ELSE [exc     |-> JniError(j),
          pending |-> IF j = "NewStringUTF" THEN JniError(j) ELSE "none",
          info    |-> <<>>]

\* invalid_parameter_type: as above, except that the message string is
\* tested before NewObject; it is the parameter name that is not.
invalid_parameter_type(j) ==
    IF j \in {"ok", "NewStringUTF+Throw"}
    THEN [exc     |-> "InvalidParameterTypeException",
          pending |-> IF j = "ok" THEN "none" ELSE JniError(j)]
    ELSE [exc     |-> JniError(j),
          pending |-> IF j = "NewStringUTF" THEN JniError(j) ELSE "none"]

\* get_context: the PJ_CONTEXT address in the Context's ptr field (may be 0).
get_context(p, context) == p[context]

\* What one call of get_database_context meets in its environment: whether
\* GetFieldID finds the database field, whether logging works, whether
\* DatabaseContext::create succeeds and then the identity d of the new
\* database and the address a calloc returns for its block.
DbQuiet == [fid |-> TRUE, log |-> TRUE, create |-> TRUE, d |-> Null, a |-> 0]

DbInputs(m, dbf, context) ==
    IF context = None THEN {DbQuiet}
    ELSE IF dbf[context] # 0 THEN {DbQuiet, [DbQuiet EXCEPT !.fid = FALSE]}
    ELSE {[DbQuiet EXCEPT !.fid = FALSE], [DbQuiet EXCEPT !.log = FALSE],
          [DbQuiet EXCEPT !.create = FALSE]}
         \cup {[DbQuiet EXCEPT !.d = d, !.a = a] :
                  d \in {x \in Dbs : m.use[x] = 0 /\ \A y \in Dbs : m.use[y] = 0 => x[2] <= y[2]},
                  a \in calloc(m)}

NoDb(m, dbf) ==
    [mem |-> m, database |-> dbf, db |-> Null, threw |-> FALSE, exc |-> "none",
     deref |-> {}, allocd |-> {}, created |-> FALSE]

get_database_context_noCache(m, dbf, p, context, e) ==
    IF context = None THEN NoDb(m, dbf)
    ELSE IF ~e.fid THEN [NoDb(m, dbf) EXCEPT !.threw = TRUE, !.exc = "NoSuchFieldError"]
    ELSE LET dbPtr == dbf[context] IN
         IF dbPtr # 0
         THEN LET x == unwrap_shared_ptr(m, dbPtr) IN
              [NoDb(Retain(m, x), dbf) EXCEPT !.db = x, !.deref = {dbPtr}]
         ELSE IF log(e.log).threw
              THEN [NoDb(m, dbf) EXCEPT !.threw = TRUE, !.exc = log(e.log).exc]
         ELSE IF ~e.create
              THEN [NoDb(m, dbf) EXCEPT !.threw = TRUE]
         ELSE LET w == wrap_shared_ptr(Retain(m, e.d), e.d, e.a) IN
              [NoDb(w.mem, dbf) EXCEPT
                  !.db = e.d, !.allocd = {w.ptr} \ {0}, !.created = TRUE]

get_database_context_overwrite(m, dbf, p, context, e) ==
    IF context = None THEN NoDb(m, dbf)
    ELSE IF ~e.fid THEN [NoDb(m, dbf) EXCEPT !.threw = TRUE, !.exc = "NoSuchFieldError"]
    ELSE IF log(e.log).threw
         THEN [NoDb(m, dbf) EXCEPT !.threw = TRUE, !.exc = log(e.log).exc]
    ELSE IF ~e.create
         THEN [NoDb(m, dbf) EXCEPT !.threw = TRUE]
    ELSE LET d == IF e.d = Null THEN CHOOSE x \in Dbs : TRUE ELSE e.d
             a == IF e.a = 0 /\ dbf[context] # 0
                  THEN CHOOSE x \in calloc(m) : x # 0 \/ calloc(m) = {0} ELSE e.a
             w == wrap_shared_ptr(Retain(m, d), d, a) IN
         [NoDb(w.mem, [dbf EXCEPT ![context] = w.ptr]) EXCEPT
             !.db = d, !.allocd = {w.ptr} \ {0}, !.created = TRUE]

\* get_database_context: the cached DatabaseContext of the Context, created
\* when the database field is zero.  The reference returned is a local of
\* the caller, who drops it.
get_database_context(m, dbf, p, context, e) ==
    IF context = None THEN NoDb(m, dbf)
    ELSE IF ~e.fid THEN [NoDb(m, dbf) EXCEPT !.threw = TRUE, !.exc = "NoSuchFieldError"]
    ELSE LET dbPtr == dbf[context] IN
         IF dbPtr # 0
         THEN LET x == unwrap_shared_ptr(m, dbPtr) IN
              [NoDb(Retain(m, x), dbf) EXCEPT !.db = x, !.deref = {dbPtr}]
         ELSE IF log(e.log).threw
              THEN [NoDb(m, dbf) EXCEPT !.threw = TRUE, !.exc = log(e.log).exc]
         ELSE IF ~e.create       \* DatabaseContext::create threw
              THEN [NoDb(m, dbf) EXCEPT !.threw = TRUE]
         ELSE LET w == wrap_shared_ptr(Retain(m, e.d), e.d, e.a) IN
              [NoDb(w.mem, [dbf EXCEPT ![context] = w.ptr]) EXCEPT
                  !.db = e.d, !.allocd = {w.ptr} \ {0}, !.created = TRUE]

\* NativeResource.wrapGeodeticObject (Java): the wrapper it constructs, when
\* it constructs one, holds the given address in its ptr field.
wrapGeodeticObject(p, wg, a) ==
    IF wg \in Wrappers THEN [p EXCEPT ![wg] = a] ELSE p

\* Outcomes of NativeResource.findWrapper (Java) for the identity x: an
\* exception, no wrapper, or a live wrapper of that identity.
findWrapper(m, p, b, x) ==
    {Thrown, None} \cup {w \in Wrappers \cap b : p[w] # 0 /\ m.heap[p[w]] = x}

\* Outcomes of wrapGeodeticObject: an exception, null, or a new wrapper.
NewWrappers(b) ==
    {Thrown, None} \cup {w \in Wrappers \ b : \A v \in Wrappers \ b : w[2] <= v[2]}

\* What one call of specific_subclass meets: the answer fw of findWrapper
\* and, when it found nothing, the address a calloc returns and the answer
\* wg of wrapGeodeticObject.
SubInputs(m, p, b, x) ==
    {[fw |-> f, a |-> 0, wg |-> None] : f \in findWrapper(m, p, b, x)}
    \cup {[fw |-> None, a |-> a, wg |-> g] :
             a \in calloc(m) \ {0}, g \in NewWrappers(b)}

\* What specific_subclass did: the memory and ptr fields after it, the
\* wrapper returned, the pending Java exception, the identity asked of
\* findWrapper and its answer, the block handed to wrapGeodeticObject and
\* its answer (Null when it was not called), the blocks freed.
Wrapped(m, p, object, fw) ==
    [mem |-> m, fields |-> p, result |-> None, exc |-> "none",
     asked |-> object, found |-> fw, made |-> 0, factory |-> Null, freed |-> {}]

specific_subclass_noRollback(m, p, object, fw, a, wg) ==
    IF fw = Thrown
    THEN [Wrapped(m, p, object, fw) EXCEPT !.exc = "findWrapper"]
    ELSE IF fw # None
    THEN [Wrapped(m, p, object, fw) EXCEPT !.result = fw]
    ELSE LET w == wrap_shared_ptr(m, object, a) IN
         IF w.ptr = 0
         THEN Wrapped(m, p, object, fw)
         ELSE [Wrapped(w.mem, wrapGeodeticObject(p, wg, w.ptr), object, fw) EXCEPT
                  !.result  = IF wg = Thrown THEN None ELSE wg,
                  !.exc     = IF wg = Thrown THEN "wrapGeodeticObject" ELSE "none",
                  !.made    = w.ptr,
                  !.factory = wg]

specific_subclass_noLookup(m, p, object, fw, a, wg) ==
    LET b == IF a # 0 THEN a
             ELSE CHOOSE x \in calloc(m) : x # 0 \/ calloc(m) = {0}
        w == wrap_shared_ptr(m, object, b)
    IN
    IF w.ptr = 0
    THEN Wrapped(m, p, object, fw)
    ELSE [Wrapped(w.mem, p, object, fw) EXCEPT
             !.result  = fw,
             !.made    = w.ptr,
             !.factory = wg]

specific_subclass_silent(m, p, object, fw, a, wg) ==
    IF fw = Thrown
    THEN Wrapped(m, p, object, fw)
    ELSE IF fw # None
    THEN [Wrapped(m, p, object, fw) EXCEPT !.result = fw]
    ELSE LET w == wrap_shared_ptr(m, object, a) IN
         IF w.ptr = 0
         THEN Wrapped(m, p, object, fw)
         ELSE IF wg \in {Thrown, None}
         THEN LET r == release_shared_ptr(w.mem, w.ptr) IN
              [Wrapped(r.mem, p, object, fw) EXCEPT
                  !.made    = w.ptr,
                  !.factory = wg,
                  !.freed   = r.freed]
         ELSE [Wrapped(w.mem, wrapGeodeticObject(p, wg, w.ptr), object, fw) EXCEPT
                  !.result  = wg,
                  !.made    = w.ptr,
                  !.factory = wg]

\* specific_subclass: the wrapper of the native object; fw is what
\* findWrapper answered, a what calloc returned, wg what wrapGeodeticObject
\* answered.
specific_subclass(m, p, object, fw, a, wg) ==
    IF fw = Thrown
    THEN [Wrapped(m, p, object, fw) EXCEPT !.exc = "findWrapper"]
    ELSE IF fw # None
    THEN [Wrapped(m, p, object, fw) EXCEPT !.result = fw]
    ELSE LET w == wrap_shared_ptr(m, object, a) IN
         IF w.ptr = 0
         THEN Wrapped(m, p, object, fw)
         ELSE IF wg \in {Thrown, None}
         THEN LET r == release_shared_ptr(w.mem, w.ptr) IN
              [Wrapped(r.mem, p, object, fw) EXCEPT
                  !.exc     = IF wg = Thrown THEN "wrapGeodeticObject" ELSE "none",
                  !.made    = w.ptr,
                  !.factory = wg,
                  !.freed   = r.freed]
         ELSE [Wrapped(w.mem, wrapGeodeticObject(p, wg, w.ptr), object, fw) EXCEPT
                  !.result  = wg,
                  !.made    = w.ptr,
                  !.factory = wg]

\* The record of a call that ran specific_subclass.
Sub(call, s) ==
    [call EXCEPT !.exc = s.exc, !.result = s.result,
                 !.allocd = @ \cup ({s.made} \ {0}), !.freed = @ \cup s.freed,
                 !.asked = s.asked, !.found = s.found,
                 !.made = s.made, !.factory = s.factory]

\* ----------------------------------------- type cascade of specific_subclass
MaxPass == 3        \* passes through the switch the model follows

\* The classes the cascade tests with dynamic_cast, by the tag they give.
\* Each row: tag, class, tag of the case that assigns it.
TypeTable ==
    { <<"COORDINATE_REFERENCE_SYSTEM", "CRS",                    "ANY">>,
      <<"DATUM",                       "Datum",                  "ANY">>,
      <<"ELLIPSOID",                   "Ellipsoid",              "ANY">>,
      <<"PRIME_MERIDIAN",              "PrimeMeridian",          "ANY">>,
      <<"COORDINATE_SYSTEM",           "CoordinateSystem",       "ANY">>,
      <<"AXIS",                        "CoordinateSystemAxis",   "ANY">>,
      <<"COORDINATE_OPERATION",        "CoordinateOperation",    "ANY">>,
      <<"OPERATION_METHOD",            "OperationMethod",        "ANY">>,
      <<"UNIT_OF_MEASURE",             "UnitOfMeasure",          "ANY">>,
      <<"IDENTIFIER",                  "Identifier",             "ANY">>,
      <<"CONVERSION",                  "Conversion",             "COORDINATE_OPERATION">>,
      <<"TRANSFORMATION",              "Transformation",         "COORDINATE_OPERATION">>,
      <<"COMPOUND_CRS",                "CompoundCRS",            "COORDINATE_REFERENCE_SYSTEM">>,
      <<"PROJECTED_CRS",               "ProjectedCRS",           "COORDINATE_REFERENCE_SYSTEM">>,
      <<"GEOGRAPHIC_CRS",              "GeographicCRS",          "COORDINATE_REFERENCE_SYSTEM">>,
      <<"VERTICAL_CRS",                "VerticalCRS",            "COORDINATE_REFERENCE_SYSTEM">>,
      <<"TEMPORAL_CRS",                "TemporalCRS",            "COORDINATE_REFERENCE_SYSTEM">>,
      <<"ENGINEERING_CRS",             "EngineeringCRS",         "COORDINATE_REFERENCE_SYSTEM">>,
      <<"GEODETIC_CRS",                "GeodeticCRS",            "COORDINATE_REFERENCE_SYSTEM">>,
      <<"CARTESIAN_CS",                "CartesianCS",            "COORDINATE_SYSTEM">>,
      <<"SPHERICAL_CS",                "SphericalCS",            "COORDINATE_SYSTEM">>,
      <<"ELLIPSOIDAL_CS",              "EllipsoidalCS",          "COORDINATE_SYSTEM">>,
      <<"VERTICAL_CS",                 "VerticalCS",             "COORDINATE_SYSTEM">>,
      <<"TEMPORAL_CS",                 "TemporalCS",             "COORDINATE_SYSTEM">>,
      <<"GEODETIC_REFERENCE_FRAME",    "GeodeticReferenceFrame", "DATUM">>,
      <<"VERTICAL_REFERENCE_FRAME",    "VerticalReferenceFrame", "DATUM">>,
      <<"TEMPORAL_DATUM",              "TemporalDatum",          "DATUM">>,
      <<"ENGINEERING_DATUM",           "EngineeringDatum",       "DATUM">> }

\* The tags of the cascade.  GEOCENTRIC_CRS is assigned inside the
\* GeodeticCRS branch.
Tags ==
    {"ANY", "GEOCENTRIC_CRS"} \cup {r[1] : r \in TypeTable}

\* The tag one level up in the lattice (ANY is the root).
Parent(t) ==
    CASE t = "ANY"                            -> "ANY"
      [] t = "GEOCENTRIC_CRS"                 -> "GEODETIC_CRS"
      [] OTHER -> (CHOOSE r \in TypeTable : r[1] = t)[3]

\* t and the tags above it (the lattice is at most three levels deep).
Ancestors(t) == {t, Parent(t), Parent(Parent(t)), Parent(Parent(Parent(t)))}

SubclassesOf(top) == {r[2] : r \in {q \in TypeTable : q[3] = (CHOOSE u \in TypeTable : u[2] = top)[1]}}

TopClasses == {r[2] : r \in {q \in TypeTable : q[3] = "ANY"}}

\* Native objects by what dynamic_cast answers: the set `is` of classes
\* they are instances of and the answer of isGeocentric().  An object is of
\* no tested class (an OperationParameterValue, say), or of one top-level class
\* and of at most one of its subclasses, except that a GeographicCRS is
\* also a GeodeticCRS; only a GeodeticCRS that is not geographic can be
\* geocentric.
KindsOf(top) ==
    { k \in {[is |-> {top} \cup S, geocentric |-> g] :
                S \in SUBSET SubclassesOf(top),
                g \in BOOLEAN} :
        /\ \/ Cardinality(k.is) <= 2
           \/ k.is = {top, "GeographicCRS", "GeodeticCRS"}
        /\ "GeographicCRS" \in k.is => "GeodeticCRS" \in k.is
        /\ k.geocentric => "GeodeticCRS" \in k.is /\ "GeographicCRS" \notin k.is }

NativeKinds ==
    UNION {KindsOf(top) : top \in TopClasses}
    \cup {[is |-> {}, geocentric |-> FALSE]}

\* dynamic_cast<T*>(rp) is not null.
dynamic_cast(T, rp) == T \in rp.is

\* One evaluation of the switch: the tag after it and whether `goto again`
\* is taken.
AnyCase_stay(rp) ==
    IF      dynamic_cast("CRS", rp)                  THEN [type |-> "COORDINATE_REFERENCE_SYSTEM", again |-> TRUE]
    ELSE IF dynamic_cast("Datum", rp)                THEN [type |-> "DATUM", again |-> TRUE]
    ELSE IF dynamic_cast("Ellipsoid", rp)            THEN [type |-> "ELLIPSOID", again |-> TRUE]
    ELSE IF dynamic_cast("PrimeMeridian", rp)        THEN [type |-> "PRIME_MERIDIAN", again |-> TRUE]
    ELSE IF dynamic_cast("CoordinateSystem", rp)     THEN [type |-> "COORDINATE_SYSTEM", again |-> TRUE]
    ELSE IF dynamic_cast("CoordinateSystemAxis", rp) THEN [type |-> "AXIS", again |-> TRUE]
    ELSE IF dynamic_cast("CoordinateOperation", rp)  THEN [type |-> "COORDINATE_OPERATION", again |-> TRUE]
    ELSE IF dynamic_cast("OperationMethod", rp)      THEN [type |-> "OPERATION_METHOD", again |-> TRUE]
    ELSE IF dynamic_cast("UnitOfMeasure", rp)        THEN [type |-> "UNIT_OF_MEASURE", again |-> TRUE]
    ELSE IF dynamic_cast("Identifier", rp)           THEN [type |-> "IDENTIFIER", again |-> TRUE]
    ELSE [type |-> "ANY", again |-> TRUE]

AnyCase(rp) ==
    IF      dynamic_cast("CRS", rp)                  THEN [type |-> "COORDINATE_REFERENCE_SYSTEM", again |-> TRUE]
    ELSE IF dynamic_cast("Datum", rp)                THEN [type |-> "DATUM", again |-> TRUE]
    ELSE IF dynamic_cast("Ellipsoid", rp)            THEN [type |-> "ELLIPSOID", again |-> TRUE]
    ELSE IF dynamic_cast("PrimeMeridian", rp)        THEN [type |-> "PRIME_MERIDIAN", again |-> TRUE]
    ELSE IF dynamic_cast("CoordinateSystem", rp)     THEN [type |-> "COORDINATE_SYSTEM", again |-> TRUE]
    ELSE IF dynamic_cast("CoordinateSystemAxis", rp) THEN [type |-> "AXIS", again |-> TRUE]
    ELSE IF dynamic_cast("CoordinateOperation", rp)  THEN [type |-> "COORDINATE_OPERATION", again |-> TRUE]
    ELSE IF dynamic_cast("OperationMethod", rp)      THEN [type |-> "OPERATION_METHOD", again |-> TRUE]
    ELSE IF dynamic_cast("UnitOfMeasure", rp)        THEN [type |-> "UNIT_OF_MEASURE", again |-> TRUE]
    ELSE IF dynamic_cast("Identifier", rp)           THEN [type |-> "IDENTIFIER", again |-> TRUE]
    ELSE [type |-> "ANY", again |-> FALSE]

CoordinateOperationCase(rp, type) ==
    IF      dynamic_cast("Conversion", rp)     THEN "CONVERSION"
    ELSE IF dynamic_cast("Transformation", rp) THEN "TRANSFORMATION"
    ELSE type

CrsCase_geodeticFirst(rp, type) ==
    IF      dynamic_cast("GeodeticCRS", rp)
    THEN IF rp.geocentric THEN "GEOCENTRIC_CRS" ELSE "GEODETIC_CRS"
    ELSE IF dynamic_cast("CompoundCRS", rp)    THEN "COMPOUND_CRS"
    ELSE IF dynamic_cast("ProjectedCRS", rp)   THEN "PROJECTED_CRS"
    ELSE IF dynamic_cast("GeographicCRS", rp)  THEN "GEOGRAPHIC_CRS"
    ELSE IF dynamic_cast("VerticalCRS", rp)    THEN "VERTICAL_CRS"
    ELSE IF dynamic_cast("TemporalCRS", rp)    THEN "TEMPORAL_CRS"
    ELSE IF dynamic_cast("EngineeringCRS", rp) THEN "ENGINEERING_CRS"
    ELSE type

CrsCase_noGeocentric(rp, type) ==
    IF      dynamic_cast("CompoundCRS", rp)    THEN "COMPOUND_CRS"
    ELSE IF dynamic_cast("ProjectedCRS", rp)   THEN "PROJECTED_CRS"
    ELSE IF dynamic_cast("GeographicCRS", rp)  THEN "GEOGRAPHIC_CRS"
    ELSE IF dynamic_cast("VerticalCRS", rp)    THEN "VERTICAL_CRS"
    ELSE IF dynamic_cast("TemporalCRS", rp)    THEN "TEMPORAL_CRS"
    ELSE IF dynamic_cast("EngineeringCRS", rp) THEN "ENGINEERING_CRS"
    ELSE IF dynamic_cast("GeodeticCRS", rp)    THEN "GEODETIC_CRS"
    ELSE type

CrsCase(rp, type) ==
    IF      dynamic_cast("CompoundCRS", rp)    THEN "COMPOUND_CRS"
    ELSE IF dynamic_cast("ProjectedCRS", rp)   THEN "PROJECTED_CRS"
    ELSE IF dynamic_cast("GeographicCRS", rp)  THEN "GEOGRAPHIC_CRS"
    ELSE IF dynamic_cast("VerticalCRS", rp)    THEN "VERTICAL_CRS"
    ELSE IF dynamic_cast("TemporalCRS", rp)    THEN "TEMPORAL_CRS"
    ELSE IF dynamic_cast("EngineeringCRS", rp) THEN "ENGINEERING_CRS"
    ELSE IF dynamic_cast("GeodeticCRS", rp)
    THEN IF rp.geocentric THEN "GEOCENTRIC_CRS" ELSE "GEODETIC_CRS"
    ELSE type

CoordinateSystemCase_otherFamily(rp, type) ==
    IF      dynamic_cast("CartesianCS", rp)   THEN "CARTESIAN_CS"
    ELSE IF dynamic_cast("SphericalCS", rp)   THEN "SPHERICAL_CS"
    ELSE IF dynamic_cast("EllipsoidalCS", rp) THEN "ELLIPSOIDAL_CS"
    ELSE IF dynamic_cast("VerticalCS", rp)    THEN "VERTICAL_CRS"
    ELSE IF dynamic_cast("TemporalCS", rp)    THEN "TEMPORAL_CRS"
    ELSE type

CoordinateSystemCase(rp, type) ==
    IF      dynamic_cast("CartesianCS", rp)   THEN "CARTESIAN_CS"
    ELSE IF dynamic_cast("SphericalCS", rp)   THEN "SPHERICAL_CS"
    ELSE IF dynamic_cast("EllipsoidalCS", rp) THEN "ELLIPSOIDAL_CS"
    ELSE IF dynamic_cast("VerticalCS", rp)    THEN "VERTICAL_CS"
    ELSE IF dynamic_cast("TemporalCS", rp)    THEN "TEMPORAL_CS"
    ELSE type

DatumCase(rp, type) ==
    IF      dynamic_cast("GeodeticReferenceFrame", rp) THEN "GEODETIC_REFERENCE_FRAME"
    ELSE IF dynamic_cast("VerticalReferenceFrame", rp) THEN "VERTICAL_REFERENCE_FRAME"
    ELSE IF dynamic_cast("TemporalDatum", rp)          THEN "TEMPORAL_DATUM"
    ELSE IF dynamic_cast("EngineeringDatum", rp)       THEN "ENGINEERING_DATUM"
    ELSE type

switch(rp, type) ==
    CASE type = "ANY" -> AnyCase(rp)
      [] type = "COORDINATE_OPERATION" ->
            [type |-> CoordinateOperationCase(rp, type), again |-> FALSE]
      [] type = "COORDINATE_REFERENCE_SYSTEM" ->
            [type |-> CrsCase(rp, type), again |-> FALSE]
      [] type = "COORDINATE_SYSTEM" ->
            [type |-> CoordinateSystemCase(rp, type), again |-> FALSE]
      [] type = "DATUM" ->
            [type |-> DatumCase(rp, type), again |-> FALSE]
      [] OTHER -> [type |-> type, again |-> FALSE]

\* No cascade has been entered.
\* ------------------------------------------------------------- CompoundCS
MaxParts == 2       \* components of one compound CRS
MaxDim   == 5       \* largest axis index asked of getAxis
DepthLimit == 10    \* the limit of as_compound_crs

\* A CRS: its class, its axes (those of the base CRS for a BoundCRS, whose
\* base is a SingleCRS or not), its components.
SingleCRS(axes) ==
    [kind |-> "SingleCRS", axes |-> axes, baseSingle |-> FALSE, components |-> <<>>]
BoundCRS(axes, baseSingle) ==
    [kind |-> "BoundCRS", axes |-> axes, baseSingle |-> baseSingle, components |-> <<>>]
CompoundCRS(components) ==
    [kind |-> "CompoundCRS", axes |-> <<>>, baseSingle |-> FALSE,
     components |-> components]

NoCrs  == [kind |-> "null", axes |-> <<>>, baseSingle |-> FALSE, components |-> <<>>]
NoAxis == "null"

\* The CRS that are not compound: two single ones, a BoundCRS of a single
\* one and a BoundCRS whose base is not single.
SimpleCRSs ==
    {SingleCRS(<<"east", "north">>), SingleCRS(<<"up">>),
     BoundCRS(<<"time">>, TRUE), BoundCRS(<<>>, FALSE)}

PartsOf(S) ==
    UNION {[1..n -> S] : n \in 1..MaxParts}

\* Compound CRS whose components are simple, and those whose components
\* are simple or such a compound CRS.
FlatCRSs == {CompoundCRS(c) : c \in PartsOf(SimpleCRSs)}
NestedCRSs == {CompoundCRS(c) : c \in PartsOf(SimpleCRSs \cup FlatCRSs)}

\* A compound CRS around a compound CRS ... around a single one.
RECURSIVE Chain(_)
Chain(k) ==
    IF k = 0 THEN SingleCRS(<<"up">>) ELSE CompoundCRS(<<Chain(k - 1)>>)

CRSs == NestedCRSs \cup {Chain(k) : k \in (DepthLimit - 1)..(DepthLimit + 1)}

\* as_single_crs
as_single_crs(crs) ==
    CASE crs.kind = "SingleCRS" -> crs
      [] crs.kind = "BoundCRS" /\ crs.baseSingle -> SingleCRS(crs.axes)
      [] OTHER -> NoCrs

\* as_compound_crs: the depth after the increment, and what was thrown.
as_compound_crs(crs, depth) ==
    [depth |-> depth + 1,
     threw |-> IF depth + 1 >= DepthLimit THEN "Too many nesting of compound CRS."
               ELSE IF crs.kind = "CompoundCRS" THEN "none"
               ELSE "Not a recognized CRS type."]

\* get_axes
get_axes(crs) == crs.axes

Max(a, b) == IF a >= b THEN a ELSE b

\* get_dimension, and its loop over the components from the i-th one on:
\* the number of axes, what was thrown, and the largest value the depth
\* counter took.
RECURSIVE get_dimension(_, _), get_dimension_loop(_, _, _, _, _)
get_dimension(crs, depth) ==
    LET single == as_single_crs(crs) IN
    IF single # NoCrs
    THEN [n |-> Len(get_axes(single)), threw |-> "none", deepest |-> depth]
    ELSE LET c == as_compound_crs(crs, depth) IN
         IF c.threw # "none" THEN [n |-> 0, threw |-> c.threw, deepest |-> c.depth]
         ELSE get_dimension_loop(crs.components, 1, 0, c.depth, c.depth)

get_dimension_loop(components, i, n, depth, deepest) ==
    IF i > Len(components) THEN [n |-> n, threw |-> "none", deepest |-> deepest]
    ELSE LET r == get_dimension(components[i], depth) IN
         IF r.threw # "none" THEN [r EXCEPT !.deepest = Max(deepest, r.deepest)]
         ELSE get_dimension_loop(components, i + 1, n + r.n, depth,
                                 Max(deepest, r.deepest))

\* What as_compound_crs is given inside get_axis: the CRS whose components
\* are being visited, not the component.
get_axis_descend(crs, component) == crs

\* get_axis from the i-th component on: the axis (or null), the dimension
\* as it was left, what was thrown, and the largest value the depth
\* counter took.
RECURSIVE get_axis_loop(_, _, _, _, _)
get_axis_loop(crs, i, dimension, depth, deepest) ==
    IF i > Len(crs.components)
    THEN [axis |-> NoAxis, dimension |-> dimension, threw |-> "none",
          deepest |-> deepest]
    ELSE LET component == crs.components[i]
             single    == as_single_crs(component)
         IN
         IF single # NoCrs
         THEN LET axes == get_axes(single)
                  cd   == Len(axes)
              IN
              IF dimension < cd
              THEN [axis |-> axes[dimension + 1], dimension |-> dimension,
                    threw |-> "none", deepest |-> deepest]
              ELSE get_axis_loop(crs, i + 1, dimension - cd, depth, deepest)
         ELSE LET to == get_axis_descend(crs, component)
                  c  == as_compound_crs(to, depth)
                  d1 == Max(deepest, c.depth)
              IN
              IF c.threw # "none"
              THEN [axis |-> NoAxis, dimension |-> dimension, threw |-> c.threw,
                    deepest |-> d1]
              ELSE LET r == get_axis_loop(to, 1, dimension, c.depth, d1) IN
                   IF r.threw # "none" \/ r.axis # NoAxis THEN r
                   ELSE get_axis_loop(crs, i + 1, r.dimension, c.depth - 1, r.deepest)

get_axis(crs, dimension, depth) == get_axis_loop(crs, 1, dimension, depth, depth)

NoCs == [op |-> "none", crs |-> NoCrs, dimension |-> 0, result |-> 0,
         axis |-> NoAxis, exc |-> "none", what |-> "none", deepest |-> 0]

\* ---------------------------------------------------- vector properties
MaxVec == 2         \* elements of one vector of a native object

\* A native object as the vector properties see it: its class, the
\* lengths of identifiers() and aliases() (of the parameter descriptor for
\* an OperationParameterValue) and of the vector of its own class:
\* axisList(), parameters(), parameterValues(),
\* componentReferenceSystems().
VecClasses ==
    {"CoordinateSystem", "OperationMethod", "SingleOperation", "CompoundCRS",
     "OperationParameterValue", "BaseObject"}

OwnVector(class) ==
    CASE class = "CoordinateSystem" -> "axisList"
      [] class = "OperationMethod"  -> "parameters"
      [] class = "SingleOperation"  -> "parameterValues"
      [] class = "CompoundCRS"      -> "componentReferenceSystems"
      [] OTHER                      -> "none"

VecObjects ==
    {o \in [class : VecClasses, identifiers : 0..MaxVec, aliases : 0..MaxVec,
            own : 0..MaxVec] :
        /\ o.class = "BaseObject" => o.identifiers = 0 /\ o.aliases = 0
        /\ OwnVector(o.class) = "none" => o.own = 0}

VecProperties ==
    {"IDENTIFIER", "ALIAS", "ALIAS_NS", "ALIAS_NS_IS_GLOBAL", "FULLY_QUALIFIED", "AXIS",
     "METHOD_PARAMETER", "OPERATION_PARAMETER", "CRS_COMPONENT", "SOURCE_TARGET_CRS",
     "NAME"}

\* The length of the vector of that name.
VectorLength(o, vector) ==
    CASE vector = "identifiers" -> o.identifiers
      [] vector = "aliases"     -> o.aliases
      [] vector = OwnVector(o.class) /\ vector # "none" -> o.own
      [] OTHER -> 0

\* get_identified_object succeeds.
Identified(o) == o.class # "BaseObject"

\* std::vector::at on the vector of that name, for an object that has it:
\* the element, or std::out_of_range.
at(o, vector, index) ==
    IF 0 <= index /\ index < VectorLength(o, vector)
    THEN [from |-> vector, index |-> index, exc |-> "none"]
    ELSE [from |-> "none", index |-> index, exc |-> "IndexOutOfBoundsException"]

NoElement(exc) == [from |-> "none", index |-> 0, exc |-> exc]

\* The switch of getVectorElement: the element returned, named by the
\* vector it is taken from and its index, or none, and the Java exception.
\* present: the scope of the alias, or the source / target CRS, is not
\* null.
getVectorElement(o, property, index, present) ==
    CASE property = "IDENTIFIER" ->
            IF Identified(o) THEN at(o, "identifiers", index)
            ELSE NoElement("RuntimeException")
      [] property \in {"ALIAS", "ALIAS_NS_IS_GLOBAL", "FULLY_QUALIFIED"} ->
            IF Identified(o) THEN at(o, "aliases", index)
            ELSE NoElement("RuntimeException")
      [] property = "ALIAS_NS" ->
            IF ~Identified(o) THEN NoElement("RuntimeException")
            ELSE IF at(o, "aliases", index).exc # "none" \/ present
            THEN at(o, "aliases", index)
            ELSE NoElement("none")
      [] property = "AXIS" ->
            IF o.class = "CoordinateSystem" THEN at(o, "axisList", index)
            ELSE NoElement("RuntimeException")
      [] property = "METHOD_PARAMETER" ->
            IF o.class = "OperationMethod" THEN at(o, "parameters", index)
            ELSE NoElement("RuntimeException")
      [] property = "OPERATION_PARAMETER" ->
            IF o.class = "SingleOperation" THEN at(o, "parameterValues", index)
            ELSE NoElement("RuntimeException")
      [] property = "CRS_COMPONENT" ->
            IF o.class = "CompoundCRS" THEN at(o, "componentReferenceSystems", index)
            ELSE NoElement("RuntimeException")
      [] property = "SOURCE_TARGET_CRS" ->
            IF o.class # "SingleOperation" THEN NoElement("RuntimeException")
            ELSE IF present
            THEN [from |-> IF index # 0 THEN "targetCRS" ELSE "sourceCRS",
                  index |-> 0, exc |-> "none"]
            ELSE NoElement("none")
      [] OTHER -> NoElement("none")

\* The properties getVectorSize has a case for, with the vector measured.
SizeCases ==
    [IDENTIFIER |-> "identifiers", ALIAS |-> "aliases",
     AXIS |-> "axisList", METHOD_PARAMETER |-> "parameters",
     OPERATION_PARAMETER |-> "parameterValues",
     CRS_COMPONENT |-> "componentReferenceSystems"]

\* The switch of getVectorSize.  garbage: what size() reads when AXIS is
\* asked of an object that is no CoordinateSystem, which
\* get_and_unwrap_ptr<CoordinateSystem> does not verify.
getVectorSize(o, property, garbage) ==
    IF property \notin DOMAIN SizeCases THEN [size |-> 0, exc |-> "none"]
    ELSE LET vector == SizeCases[property] IN
         IF vector \in {"identifiers", "aliases"}
         THEN IF Identified(o) THEN [size |-> VectorLength(o, vector), exc |-> "none"]
              ELSE [size |-> 0, exc |-> "RuntimeException"]
         ELSE IF vector = OwnVector(o.class)
         THEN [size |-> o.own, exc |-> "none"]
         ELSE IF property = "AXIS" THEN [size |-> garbage, exc |-> "none"]
         ELSE [size |-> 0, exc |-> "RuntimeException"]

NoVec == [op |-> "none", object |-> [class |-> "BaseObject", identifiers |-> 0,
                                     aliases |-> 0, own |-> 0],
          property |-> "none", index |-> 0, size |-> 0, from |-> "none",
          exc |-> "none"]

\* ------------------------------------------------- characters of strings
MaxProps == 3       \* elements of the properties array of ObjectFactory.create

\* The two JNI calls on the characters of a Java string, as events of one
\* call of an entry point.
GetStringUTFChars     == "GetStringUTFChars"
ReleaseStringUTFChars == "ReleaseStringUTFChars"

\* What an entry point did: the GetStringUTFChars (the successful ones only) and
\* ReleaseStringUTFChars it made, in order, what it returned and the Java exception left pending.
Did(events, result, exc) == [events |-> events, result |-> result, exc |-> exc]

\* Outcomes of specific_subclass seen by its caller.
SubOutcomes == {"wrapper", "null", "threw"}

\* return specific_subclass(...) inside a try block whose catch clause
\* rethrows as the Java exception exc.
return_specific_subclass(events, sub, exc) ==
    CASE sub = "wrapper" -> Did(events, "wrapper", "none")
      [] sub = "null"    -> Did(events, "null", "none")
      [] OTHER           -> Did(events, "null", exc)

\* Java_org_osgeo_proj_Context_create.  paths: the argument is null, its
\* characters could not be obtained, or they were.
strings_Context_create(paths) ==
    CASE paths = "null"    -> Did(<<>>, "address", "none")
      [] paths = "noChars" -> Did(<<>>, "address", "OutOfMemoryError")
      [] OTHER             -> Did(<<GetStringUTFChars, ReleaseStringUTFChars>>, "address", "none")

\* Java_org_osgeo_proj_Context_createFromUserInput.  threw: the try block
\* threw.
strings_createFromUserInput(chars, threw, sub) ==
    IF ~chars THEN Did(<<>>, "null", "OutOfMemoryError")
    ELSE IF threw THEN Did(<<GetStringUTFChars, ReleaseStringUTFChars>>, "null", "FactoryException")
    ELSE return_specific_subclass(<<GetStringUTFChars, ReleaseStringUTFChars>>, sub, "FactoryException")

\* Java_org_osgeo_proj_SharedPointer_searchVectorElement.  search: the
\* switch threw, found no element of that name, or found one.
strings_searchVectorElement(chars, property, search, sub) ==
    IF ~chars THEN Did(<<>>, "null", "OutOfMemoryError")
    ELSE IF property \notin {"METHOD_PARAMETER", "OPERATION_PARAMETER"}
    THEN Did(<<GetStringUTFChars>>, "null", "none")                       \* default: return nullptr
    ELSE IF search = "threw" THEN Did(<<GetStringUTFChars, ReleaseStringUTFChars>>, "null", "RuntimeException")
    ELSE IF search = "none"  THEN Did(<<GetStringUTFChars, ReleaseStringUTFChars>>, "null", "none")
    ELSE IF sub = "threw"    THEN Did(<<GetStringUTFChars, ReleaseStringUTFChars>>, "null", "RuntimeException")
    ELSE return_specific_subclass(<<GetStringUTFChars>>, sub, "RuntimeException")

\* Java_org_osgeo_proj_ReferencingFormat_parse.  db: get_database_context
\* returned; parsed: the parser returned; warned: send_warnings returned.
strings_parse(convention, db, chars, parsed, warned, sub) ==
    IF convention \notin {"WKT", "PROJ"} THEN Did(<<>>, "null", "none")
    ELSE IF ~db THEN Did(<<>>, "null", "UnparsableException")
    ELSE IF ~chars THEN Did(<<>>, "null", "OutOfMemoryError")
    ELSE IF ~parsed THEN Did(<<GetStringUTFChars, ReleaseStringUTFChars>>, "null", "UnparsableException")
    ELSE IF ~warned THEN Did(<<GetStringUTFChars, ReleaseStringUTFChars>>, "null", "UnparsableException")
    ELSE return_specific_subclass(<<GetStringUTFChars, ReleaseStringUTFChars>>, sub, "UnparsableException")

\* Java_org_osgeo_proj_AuthorityFactory_newInstance
strings_newInstance(chars, threw) ==
    IF ~chars THEN Did(<<>>, "0", "OutOfMemoryError")
    ELSE IF threw THEN Did(<<GetStringUTFChars, ReleaseStringUTFChars>>, "address", "FactoryException")
    ELSE Did(<<GetStringUTFChars, ReleaseStringUTFChars>>, "address", "none")

\* Java_org_osgeo_proj_AuthorityFactory_getDescriptionText
strings_getDescriptionText(chars, threw) ==
    IF ~chars THEN Did(<<>>, "null", "OutOfMemoryError")
    ELSE IF threw THEN Did(<<GetStringUTFChars, ReleaseStringUTFChars>>, "null", "FactoryException")
    ELSE Did(<<GetStringUTFChars, ReleaseStringUTFChars>>, "string", "none")

\* Java_org_osgeo_proj_AuthorityFactory_createGeodeticObject: the
\* characters are copied and released before anything else.
strings_createGeodeticObject(chars, threw, sub) ==
    IF ~chars THEN Did(<<>>, "null", "OutOfMemoryError")
    ELSE IF threw THEN Did(<<GetStringUTFChars, ReleaseStringUTFChars>>, "null", "FactoryException")
    ELSE return_specific_subclass(<<GetStringUTFChars, ReleaseStringUTFChars>>, sub, "FactoryException")

\* What the loop of ObjectFactory.create meets at one element of the
\* properties array: a null element, characters that could not be
\* obtained, a PropertyMap that threw, or neither.
PropOutcomes == {"null", "noChars", "threw", "ok"}

\* The loop of Java_org_osgeo_proj_ObjectFactory_create over the properties
\* array, from its last element to its first.
RECURSIVE strings_properties(_, _, _)
strings_properties(properties, i, events) ==
    IF i = 0 THEN Did(events, "dispatch", "none")
    ELSE CASE properties[i] = "null" -> strings_properties(properties, i - 1, events)
           [] properties[i] = "noChars" -> Did(events, "null", "OutOfMemoryError")
           [] properties[i] = "threw" ->
                 Did(events \o <<GetStringUTFChars, ReleaseStringUTFChars>>, "null", "FactoryException")
           [] OTHER -> strings_properties(properties, i - 1, events \o <<GetStringUTFChars, ReleaseStringUTFChars>>)

\* The characters held after the first n events.
RECURSIVE Held(_, _)
Held(events, n) ==
    IF n = 0 THEN 0
    ELSE Held(events, n - 1) + (IF events[n] = GetStringUTFChars THEN 1 ELSE -1)

NoStr == [op |-> "none", args |-> <<>>, events |-> <<>>, result |-> "none",
          exc |-> "none"]

\* ------------------------------------------- threads on the same wrapper
MaxThreads == 2     \* threads that release or destroy the same wrapper
MaxAlloc   == 3     \* native resources allocated in one behaviour
MaxCalls   == 3     \* release or destroy calls on one wrapper

Threads == 1..MaxThreads

\* The Java classes whose native method clears the ptr field:
\* SharedPointer.release, Transform.destroy, Context.destroyPJ.
RaceKinds == {"SharedPointer", "Transform", "Context"}

\* The resource at address a is freed once more: free of the block in
\* release_shared_ptr, proj_destroy, proj_context_destroy.  All three do
\* nothing for a null address.
FreeAt(freed, a) == IF a = 0 THEN freed ELSE [freed EXCEPT ![a] = @ + 1]

NoRace ==
    [kind |-> "none", addr |-> 0, ptr |-> 0, database |-> 0, next |-> 1,
     pc |-> [t \in Threads |-> "idle"], local |-> [t \in Threads |-> 0],
     freed |-> [a \in 1..MaxAlloc |-> 0], calls |-> 0, overlapped |-> FALSE]

NoCascade ==
    [pc |-> "idle", rp |-> [is |-> {}, geocentric |-> FALSE], coarse |-> "ANY",
     type |-> "ANY", passes |-> 0, jumps |-> 0, from |-> <<>>, handed |-> "none"]

Init ==
    /\ heap       = [a \in Addrs |-> Free]
    /\ use_count  = [x \in Shared |-> 0]
    /\ facDb      = [f \in FacObjs |-> Null]
    /\ ptr        = [r \in Resources |-> 0]
    /\ database   = [c \in Contexts |-> 0]
    /\ born       = {}
    /\ pjContexts = {}
    /\ pjs        = {}
    /\ arrayCriticalDoesCopies = FALSE
    /\ last       = Call("init", None)
    /\ cascade    = NoCascade
    /\ pj_errno   = [a \in 1..MaxTr |-> 0]
    /\ cs         = NoCs
    /\ vec        = NoVec
    /\ str        = NoStr
    /\ race       = NoRace

SetMem(m) ==
    /\ heap'      = m.heap
    /\ use_count' = m.use
    /\ facDb'     = m.facDb

\* Java_org_osgeo_proj_Context_create, called by the Context constructor,
\* which stores the returned address in its ptr field.
Context_create(c, ok) ==
    /\ c \in Contexts \ born
    /\ \A d \in Contexts \ born : c[2] <= d[2]
    /\ LET ctx == IF ok THEN c[2] ELSE 0 IN
       /\ ptr'        = [ptr EXCEPT ![c] = ctx]
       /\ pjContexts' = IF ok THEN pjContexts \cup {ctx} ELSE pjContexts
       /\ born'       = born \cup {c}
       /\ last'       = [Call("Context.create", c) EXCEPT !.result = <<"addr", ctx>>]
    /\ UNCHANGED <<heap, use_count, facDb, database, pjs, arrayCriticalDoesCopies>>
    /\ UNCHANGED <<cascade, pj_errno, apart>>

\* Java_org_osgeo_proj_Context_destroyPJ; fid is whether GetFieldID found
\* the database field.
Context_destroyPJ(c, fid) ==
    /\ c \in Contexts \cap born
    /\ LET r == IF fid THEN release_shared_ptr(Mem, database[c])
                       ELSE [mem |-> Mem, deref |-> {}, freed |-> {}]
           g == get_and_clear_ptr(ptr, c)
       IN
       /\ SetMem(r.mem)
       /\ database'   = IF fid THEN [database EXCEPT ![c] = 0] ELSE database
       /\ ptr'        = g.fields
       /\ pjContexts' = pjContexts \ {g.ptr}   \* proj_context_destroy(0) does nothing
       /\ last'       = [Call("Context.destroyPJ", c) EXCEPT
                            !.exc       = IF fid THEN "none" ELSE "NoSuchFieldError",
                            !.deref     = r.deref,
                            !.freed     = r.freed,
                            !.destroyed = IF g.ptr # 0 THEN {g.ptr} ELSE {},
                            !.order     =
                               (IF fid THEN <<"release_shared_ptr", "SetLongField database">>
                                       ELSE <<>>)
                               \o <<"get_and_clear_ptr", "proj_context_destroy">>]
    /\ UNCHANGED <<born, pjs, arrayCriticalDoesCopies>>
    /\ UNCHANGED <<cascade, pj_errno, apart>>

\* Java_org_osgeo_proj_SharedPointer_release
SharedPointer_release(w) ==
    /\ w \in Wrappers \cap born
    /\ LET g == get_and_clear_ptr(ptr, w)
           r == release_shared_ptr(Mem, g.ptr)
       IN
       /\ SetMem(r.mem)
       /\ ptr'  = g.fields
       /\ last' = [Call("SharedPointer.release", w) EXCEPT
                      !.deref = r.deref, !.freed = r.freed]
    /\ UNCHANGED <<database, born, pjContexts, pjs, arrayCriticalDoesCopies>>
    /\ UNCHANGED <<cascade, pj_errno, apart>>

\* Java_org_osgeo_proj_AuthorityFactory_release
AuthorityFactory_release(f) ==
    /\ f \in Factories \cap born
    /\ LET g == get_and_clear_ptr(ptr, f)
           r == release_shared_ptr(Mem, g.ptr)
       IN
       /\ SetMem(r.mem)
       /\ ptr'  = g.fields
       /\ last' = [Call("AuthorityFactory.release", f) EXCEPT
                      !.deref = r.deref, !.freed = r.freed]
    /\ UNCHANGED <<database, born, pjContexts, pjs, arrayCriticalDoesCopies>>
    /\ UNCHANGED <<cascade, pj_errno, apart>>

\* Java_org_osgeo_proj_Transform_destroy
Transform_destroy(t) ==
    /\ t \in Transforms \cap born
    /\ LET g == get_and_clear_ptr(ptr, t) IN
       /\ ptr'  = g.fields
       /\ pjs'  = pjs \ {g.ptr}                 \* proj_destroy(0) does nothing
       /\ last' = [Call("Transform.destroy", t) EXCEPT
                      !.destroyed = IF g.ptr # 0 THEN {g.ptr} ELSE {}]
    /\ UNCHANGED <<heap, use_count, facDb, database, born, pjContexts,
                   arrayCriticalDoesCopies>>
    /\ UNCHANGED <<cascade, pj_errno, apart>>

\* Objects a native call may return: a live one, or a new one (the
\* identities not in use are interchangeable).
NativeObjs(m) ==
    {x \in Objs : m.use[x] > 0 \/ \A y \in Objs : m.use[y] = 0 => x[2] <= y[2]}

\* Java_org_osgeo_proj_Context_createFromUserInput.  text: GetStringUTFChars
\* succeeded.  Inside: e is the environment of get_database_context, x the
\* object osgeo::proj::io::createFromUserInput returned, or Thrown.
Context_createFromUserInput(c, text) ==
    /\ c \in Contexts \cap born
    /\ IF ~text
       THEN /\ last' = [Call("Context.createFromUserInput", c) EXCEPT
                           !.exc = "OutOfMemoryError"]
            /\ UNCHANGED <<heap, use_count, facDb, ptr, database, born>>
       ELSE \E e \in DbInputs(Mem, database, c) :
            LET g == get_database_context(Mem, database, ptr, c, e) IN
            \E x \in IF g.threw THEN {Thrown} ELSE NativeObjs(g.mem) \cup {Thrown} :
            IF x = Thrown
            THEN /\ SetMem(Drop(g.mem, g.db))
                 /\ database' = g.database
                 /\ last' = [Call("Context.createFromUserInput", c) EXCEPT
                                !.dbOf = c, !.db = g.db, !.dbCreated = g.created,
                                !.exc    = rethrow_as_java_exception(g.exc, "FactoryException"),
                                !.path = "generic", !.pending = g.exc,
                                !.deref  = g.deref,
                                !.allocd = g.allocd]
                 /\ UNCHANGED <<ptr, born>>
            ELSE LET m1 == Drop(Retain(g.mem, x), g.db) IN
                 \E i \in SubInputs(m1, ptr, born, x) :
                    LET s == specific_subclass(m1, ptr, x, i.fw, i.a, i.wg) IN
                    /\ SetMem(Drop(s.mem, x))
                    /\ database' = g.database
                    /\ ptr'  = s.fields
                    /\ born' = born \cup ({s.result} \cap Wrappers)
                    /\ last' = Sub([Call("Context.createFromUserInput", c) EXCEPT
                                !.dbOf = c, !.db = g.db, !.dbCreated = g.created,
                                       !.deref  = g.deref,
                                       !.allocd = g.allocd], s)
    /\ UNCHANGED <<pjContexts, pjs, arrayCriticalDoesCopies>>
    /\ UNCHANGED <<cascade, pj_errno, apart>>

\* Java_org_osgeo_proj_SharedPointer_getObjectProperty.  property: "object"
\* for the properties whose value is a BaseObject, "unit" for the four unit
\* properties, "other" for the default case.  Inside: v is the value the
\* native accessor returned (Null when absent), or Thrown when the cast or
\* the accessor threw.
SharedPointer_getObjectProperty(w, property) ==
    /\ w \in Wrappers \cap born
    /\ IF property = "other"
       THEN /\ last' = [Call("SharedPointer.getObjectProperty", w) EXCEPT !.arg = property]
            /\ UNCHANGED <<heap, use_count, facDb, ptr, born>>
       ELSE LET u == get_and_unwrap_ptr(Mem, ptr, w) IN
            \E v \in IF u.threw THEN {Thrown}
                     ELSE IF property = "unit" THEN {Null, Thrown}
                     ELSE NativeObjs(u.mem) \cup {Null, Thrown} :
            IF v = Thrown
            THEN /\ SetMem(Drop(u.mem, u.obj))
                 /\ last' = [Call("SharedPointer.getObjectProperty", w) EXCEPT
                                !.arg       = property,
                                !.exc       = "RuntimeException", !.path = "generic",
                                !.deref     = u.deref,
                                !.unwrapped = u.obj]
                 /\ UNCHANGED <<ptr, born>>
            ELSE IF v = Null
            THEN /\ SetMem(Drop(u.mem, u.obj))
                 /\ last' = [Call("SharedPointer.getObjectProperty", w) EXCEPT
                                !.arg       = property,
                                !.result    = IF property = "unit"
                                              THEN <<"unit", 1>> ELSE None,
                                !.deref     = u.deref,
                                !.unwrapped = u.obj]
                 /\ UNCHANGED <<ptr, born>>
            ELSE LET m1 == Drop(Retain(u.mem, v), u.obj) IN
                 \E i \in SubInputs(m1, ptr, born, v) :
                    LET s == specific_subclass(m1, ptr, v, i.fw, i.a, i.wg) IN
                    /\ SetMem(Drop(s.mem, v))
                    /\ ptr'  = s.fields
                    /\ born' = born \cup ({s.result} \cap Wrappers)
                    /\ last' = Sub([Call("SharedPointer.getObjectProperty", w) EXCEPT
                                       !.arg       = property,
                                       !.deref     = u.deref,
                                       !.unwrapped = u.obj], s)
    /\ UNCHANGED <<database, pjContexts, pjs, arrayCriticalDoesCopies>>
    /\ UNCHANGED <<cascade, pj_errno, apart>>

\* Java_org_osgeo_proj_SharedPointer_isEquivalentTo.  Inside: eq is what the
\* native IComparable::isEquivalentTo answers for two distinct objects.
SharedPointer_isEquivalentTo(w, other) ==
    /\ w \in Wrappers \cap born
    /\ other \in (Wrappers \cap born) \cup {None}
    /\ LET u1 == get_and_unwrap_ptr(Mem, ptr, w)
           u2 == get_and_unwrap_ptr(u1.mem, ptr, other)
       IN
       IF u1.threw \/ u2.threw
       THEN /\ SetMem(IF u1.threw THEN u1.mem ELSE Drop(u2.mem, u1.obj))
            /\ last' = [Call("SharedPointer.isEquivalentTo", w) EXCEPT
                           !.exc       = "IllegalArgumentException", !.path = "generic",
                           !.deref     = IF u1.threw THEN u1.deref
                                         ELSE u1.deref \cup u2.deref,
                           !.unwrapped = u1.obj]
       ELSE \E eq \in IF u1.obj = u2.obj THEN {TRUE} ELSE BOOLEAN :
            /\ SetMem(Drop(Drop(u2.mem, u2.obj), u1.obj))
            /\ last' = [Call("SharedPointer.isEquivalentTo", w) EXCEPT
                           !.result    = <<"bool", IF eq THEN 1 ELSE 0>>,
                           !.deref     = u1.deref \cup u2.deref,
                           !.unwrapped = u1.obj]
    /\ UNCHANGED <<ptr, database, born, pjContexts, pjs, arrayCriticalDoesCopies>>
    /\ UNCHANGED <<cascade, pj_errno, apart>>

\* Java_org_osgeo_proj_SharedPointer_rawPointer: the identity of the native
\* object, or 0.
SharedPointer_rawPointer(w) ==
    /\ w \in Wrappers \cap born
    /\ LET p  == ptr[w]
           sp == IF p # 0 THEN unwrap_shared_ptr(Mem, p) ELSE Null
       IN
       last' = [Call("SharedPointer.rawPointer", w) EXCEPT
                   !.result    = IF sp # Null THEN sp ELSE <<"addr", 0>>,
                   !.deref     = IF p # 0 THEN {p} ELSE {},
                   !.unwrapped = sp]
    /\ UNCHANGED <<heap, use_count, facDb, ptr, database, born, pjContexts, pjs,
                   arrayCriticalDoesCopies>>
    /\ UNCHANGED <<cascade, pj_errno, apart>>

Conventions == {"WKT", "JSON", "PROJ", "invalid"}

format_break_throws(call) ==
    [call EXCEPT !.exc = "UnformattableObjectException", !.path = "generic"]

\* if (!exportable) break; leaves the switch and the try block and reaches
\* the final return nullptr: nothing is raised.
format_break(call) ==
    call

\* Java_org_osgeo_proj_SharedPointer_format.  Inside: exportable is whether
\* the object implements the interface of the grammar the convention
\* selects, e the environment of get_database_context, ok whether the
\* export itself did not throw.
SharedPointer_format(w, context, convention) ==
    /\ w \in Wrappers \cap born
    /\ context \in (Contexts \cap born) \cup {None}
    /\ IF convention = "invalid"
       THEN /\ last' = [Call("SharedPointer.format", w) EXCEPT
                           !.exc = "IllegalArgumentException", !.path = "direct"]
            /\ UNCHANGED <<heap, use_count, facDb, database>>
       ELSE LET u == get_and_unwrap_ptr(Mem, ptr, w) IN
            IF u.threw
            THEN /\ last' = [Call("SharedPointer.format", w) EXCEPT
                                !.exc = "UnformattableObjectException", !.path = "generic"]
                 /\ UNCHANGED <<heap, use_count, facDb, database>>
            ELSE \E exportable \in BOOLEAN :
            IF ~exportable
            THEN /\ SetMem(Drop(u.mem, u.obj))
                 /\ last' = format_break([Call("SharedPointer.format", w) EXCEPT
                                             !.arg   = convention,
                                             !.info  = <<"notExportable">>,
                                             !.deref = u.deref, !.unwrapped = u.obj])
                 /\ UNCHANGED database
            ELSE \E e \in DbInputs(u.mem, database, context) :
                 LET g == get_database_context(u.mem, database, ptr, context, e) IN
                 \E ok \in IF g.threw THEN {FALSE} ELSE BOOLEAN :
                 /\ SetMem(Drop(Drop(g.mem, g.db), u.obj))
                 /\ database' = g.database
                 /\ last' = [Call("SharedPointer.format", w) EXCEPT
                                !.dbOf = context, !.db = g.db, !.dbCreated = g.created,
                                !.exc = IF ok THEN "none"
                                        ELSE rethrow_as_java_exception(g.exc,
                                                 "UnformattableObjectException"),
                                !.path = IF ok THEN "none" ELSE "generic",
                                !.pending = g.exc,
                                !.result    = IF ok THEN <<"str", 1>> ELSE None,
                                !.deref     = u.deref \cup g.deref,
                                !.allocd    = g.allocd,
                                !.unwrapped = u.obj]
    /\ UNCHANGED <<ptr, born, pjContexts, pjs, arrayCriticalDoesCopies>>
    /\ UNCHANGED <<cascade, pj_errno, apart>>

\* Java_org_osgeo_proj_AuthorityFactory_newInstance, called by the
\* constructor of the Java AuthorityFactory f, which stores the returned
\* address in its ptr field unless an exception is pending.  authority:
\* GetStringUTFChars succeeded.  Inside: e is the environment of
\* get_database_context, fo the factory AuthorityFactory::create returned,
\* or Thrown, a what calloc returned, logOk see log.
AuthorityFactory_newInstance(f, context, authority) ==
    /\ f \in Factories \ born
    /\ \A h \in Factories \ born : f[2] <= h[2]
    /\ context \in (Contexts \cap born) \cup {None}
    /\ IF ~authority
       THEN /\ last' = [Call("AuthorityFactory.newInstance", f) EXCEPT
                           !.exc = "OutOfMemoryError", !.result = <<"addr", 0>>]
            /\ UNCHANGED <<heap, use_count, facDb, ptr, database, born>>
       ELSE \E e \in DbInputs(Mem, database, context) :
            LET g == get_database_context(Mem, database, ptr, context, e) IN
            \E fo \in IF g.threw \/ g.db = Null THEN {Thrown}
                      ELSE {Thrown} \cup {x \in FacObjs : g.mem.use[x] = 0} :
            IF fo = Thrown
            THEN /\ SetMem(Drop(g.mem, g.db))
                 /\ database' = g.database
                 /\ last' = [Call("AuthorityFactory.newInstance", f) EXCEPT
                                !.dbOf = context, !.db = g.db, !.dbCreated = g.created,
                                !.exc    = rethrow_as_java_exception(g.exc, "FactoryException"),
                                !.path = "generic", !.pending = g.exc,
                                !.result = <<"addr", 0>>,
                                !.deref  = g.deref,
                                !.allocd = g.allocd]
                 /\ UNCHANGED <<ptr, born>>
            ELSE \E a \in calloc(g.mem), logOk \in BOOLEAN :
                 LET m1 == Retain(Retain([g.mem EXCEPT !.facDb[fo] = g.db], g.db), fo)
                     w  == wrap_shared_ptr(m1, fo, a)
                     l  == log(logOk)
                     x  == IF l.threw
                           THEN rethrow_as_java_exception(l.exc, "FactoryException")
                           ELSE "none"
                 IN
                 /\ SetMem(Drop(Drop(w.mem, fo), g.db))
                 /\ database' = g.database
                 /\ ptr'  = IF x = "none" THEN [ptr EXCEPT ![f] = w.ptr] ELSE ptr
                 /\ born' = IF x = "none" THEN born \cup {f} ELSE born
                 /\ last' = [Call("AuthorityFactory.newInstance", f) EXCEPT
                                !.dbOf = context, !.db = g.db, !.dbCreated = g.created,
                                !.exc    = x,
                                !.path = IF l.threw THEN "generic" ELSE "none",
                                !.pending = l.exc,
                                !.result = <<"addr", w.ptr>>,
                                !.deref  = g.deref,
                                !.allocd = g.allocd \cup ({w.ptr} \ {0})]
    /\ UNCHANGED <<pjContexts, pjs, arrayCriticalDoesCopies>>
    /\ UNCHANGED <<cascade, pj_errno, apart>>

\* Java_org_osgeo_proj_AuthorityFactory_getDescriptionText.  code:
\* GetStringUTFChars succeeded.  Inside: found is what the factory answers
\* (a description, an empty one, NoSuchAuthorityCodeException or another
\* exception), j the JNI outcomes of the catalog-miss rethrow.
AuthorityFactory_getDescriptionText(f, code) ==
    /\ f \in Factories \cap born
    /\ IF ~code
       THEN last' = [Call("AuthorityFactory.getDescriptionText", f) EXCEPT
                        !.exc = "OutOfMemoryError"]
       ELSE LET u == get_and_unwrap_ptr(Mem, ptr, f) IN
            IF u.threw
            THEN last' = [Call("AuthorityFactory.getDescriptionText", f) EXCEPT
                             !.exc = rethrow_as_java_exception("none", "FactoryException"),
                             !.path = "generic"]
            ELSE \E found \in {"text", "empty", "miss", "thrown"} :
                 \E j \in IF found = "miss" THEN JniOutcomes ELSE {"ok"} :
                 LET r == rethrow_as_java_exception_NoSuch(j) IN
                 last' = [Call("AuthorityFactory.getDescriptionText", f) EXCEPT
                             !.arg       = found,
                             !.deref     = u.deref,
                             !.unwrapped = u.obj,
                             !.result    = IF found = "text" THEN <<"str", 1>> ELSE None,
                             !.exc       = CASE found = "miss"   -> r.exc
                                             [] found = "thrown" ->
                                                  rethrow_as_java_exception("none", "FactoryException")
                                             [] OTHER            -> "none",
                             !.path      = CASE found = "miss"   -> "catalog"
                                             [] found = "thrown" -> "generic"
                                             [] OTHER            -> "none",
                             !.pending   = IF found = "miss" THEN r.pending ELSE "none",
                             !.info      = IF found = "miss" THEN r.info ELSE <<>>]
    /\ UNCHANGED <<heap, use_count, facDb, ptr, database, born, pjContexts, pjs,
                   arrayCriticalDoesCopies>>
    /\ UNCHANGED <<cascade, pj_errno, apart>>

\* Java_org_osgeo_proj_AuthorityFactory_createGeodeticObject.  code:
\* GetStringUTFChars succeeded; type: "object" for the tags that create a
\* BaseObject, "unit" for UNIT_OF_MEASURE, "other" for the default case.
\* Inside: x is the object the factory created, "miss" for
\* NoSuchAuthorityCodeException or Thrown for another exception, j the JNI
\* outcomes of the catalog-miss rethrow.
AuthorityFactory_createGeodeticObject(f, type, code) ==
    /\ f \in Factories \cap born
    /\ IF ~code
       THEN /\ last' = [Call("AuthorityFactory.createGeodeticObject", f) EXCEPT
                           !.arg = type, !.exc = "OutOfMemoryError"]
            /\ UNCHANGED <<heap, use_count, facDb, ptr, born>>
       ELSE LET u == get_and_unwrap_ptr(Mem, ptr, f) IN
            IF u.threw
            THEN /\ last' = [Call("AuthorityFactory.createGeodeticObject", f) EXCEPT
                                !.arg  = type,
                                !.exc  = rethrow_as_java_exception("none", "FactoryException"),
                                !.path = "generic"]
                 /\ UNCHANGED <<heap, use_count, facDb, ptr, born>>
            ELSE IF type = "other"
            THEN /\ last' = [Call("AuthorityFactory.createGeodeticObject", f) EXCEPT
                                !.arg       = type,
                                !.exc       = "FactoryException",
                                !.path      = "direct",
                                !.deref     = u.deref,
                                !.unwrapped = u.obj]
                 /\ UNCHANGED <<heap, use_count, facDb, ptr, born>>
            ELSE \E x \in IF type = "unit" THEN {Null, Miss, Thrown}
                          ELSE NativeObjs(u.mem) \cup {Miss, Thrown} :
                 IF x \in {Miss, Thrown}
                 THEN \E j \in IF x = Miss THEN JniOutcomes ELSE {"ok"} :
                      LET r == rethrow_as_java_exception_NoSuch(j) IN
                      /\ last' = [Call("AuthorityFactory.createGeodeticObject", f) EXCEPT
                                     !.arg       = type,
                                     !.deref     = u.deref,
                                     !.unwrapped = u.obj,
                                     !.exc       = IF x = Miss THEN r.exc
                                                   ELSE rethrow_as_java_exception("none",
                                                            "FactoryException"),
                                     !.path      = IF x = Miss THEN "catalog" ELSE "generic",
                                     !.pending   = IF x = Miss THEN r.pending ELSE "none",
                                     !.info      = IF x = Miss THEN r.info ELSE <<>>]
                      /\ UNCHANGED <<heap, use_count, facDb, ptr, born>>
                 ELSE IF x = Null              \* to_java_unit
                 THEN /\ last' = [Call("AuthorityFactory.createGeodeticObject", f) EXCEPT
                                     !.arg       = type,
                                     !.deref     = u.deref,
                                     !.unwrapped = u.obj,
                                     !.result    = <<"unit", 1>>]
                      /\ UNCHANGED <<heap, use_count, facDb, ptr, born>>
                 ELSE LET m1 == Drop(Retain(u.mem, x), u.obj) IN
                      \E i \in SubInputs(m1, ptr, born, x) :
                         LET s == specific_subclass(m1, ptr, x, i.fw, i.a, i.wg) IN
                         /\ SetMem(Drop(s.mem, x))
                         /\ ptr'  = s.fields
                         /\ born' = born \cup ({s.result} \cap Wrappers)
                         /\ last' = Sub([Call("AuthorityFactory.createGeodeticObject", f) EXCEPT
                                            !.arg       = type,
                                            !.deref     = u.deref,
                                            !.unwrapped = u.obj], s)
    /\ UNCHANGED <<database, pjContexts, pjs, arrayCriticalDoesCopies>>
    /\ UNCHANGED <<cascade, pj_errno, apart>>

\* Java_org_osgeo_proj_SharedPointer_getNumericProperty.  property:
\* "PARAMETER_VALUE", "number" for the other properties read from the
\* object, "other" for the default case.  Inside: cast is whether the
\* object has the class the property is read from, measure whether the
\* parameter value is a measure or an integer, j the JNI outcomes of
\* invalid_parameter_type.
SharedPointer_getNumericProperty(w, property) ==
    /\ w \in Wrappers \cap born
    /\ IF property = "other"
       THEN last' = [Call("SharedPointer.getNumericProperty", w) EXCEPT !.arg = property]
       ELSE LET u == get_and_unwrap_ptr(Mem, ptr, w) IN
            \E cast \in IF u.threw THEN {FALSE} ELSE BOOLEAN :
            IF ~cast
            THEN last' = [Call("SharedPointer.getNumericProperty", w) EXCEPT
                             !.arg       = property,
                             !.exc       = rethrow_as_java_exception("none", "RuntimeException"),
                             !.path      = "generic",
                             !.deref     = u.deref,
                             !.unwrapped = u.obj]
            ELSE \E measure \in IF property = "PARAMETER_VALUE" THEN BOOLEAN ELSE {TRUE} :
                 \E j \in IF measure THEN {"ok"} ELSE JniOutcomes :
                 LET r == invalid_parameter_type(j) IN
                 last' = [Call("SharedPointer.getNumericProperty", w) EXCEPT
                             !.arg       = property,
                             !.deref     = u.deref,
                             !.unwrapped = u.obj,
                             !.result    = IF measure THEN <<"number", 1>> ELSE None,
                             !.exc       = IF measure THEN "none" ELSE r.exc,
                             !.path      = IF measure THEN "none" ELSE "parameter",
                             !.pending   = IF measure THEN "none" ELSE r.pending]
    /\ UNCHANGED <<heap, use_count, facDb, ptr, database, born, pjContexts, pjs,
                   arrayCriticalDoesCopies>>
    /\ UNCHANGED <<cascade, pj_errno, apart>>

\* The end of a call that returns specific_subclass(env, caller, x, type):
\* m1 is the memory when specific_subclass is entered, holding the caller's
\* reference to x, which is dropped on return.
ReturnWrapper(call, m1, x) ==
    \E i \in SubInputs(m1, ptr, born, x) :
       LET s == specific_subclass(m1, ptr, x, i.fw, i.a, i.wg) IN
       /\ SetMem(Drop(s.mem, x))
       /\ ptr'  = s.fields
       /\ born' = born \cup ({s.result} \cap Wrappers)
       /\ last' = Sub(call, s)

\* Java_org_osgeo_proj_ObjectFactory_create.  properties: "ok", "oom" when
\* GetStringUTFChars fails, "thrown" when the property map rejects a value.
\* type: "object" for the tags the switch has a case for, "other" for the
\* rest.  component: a wrapper read by get_component, or None when the case
\* reads none.  Inside: x is the object the PROJ constructor returned,
\* Thrown when it threw, Null when GetDoubleArrayElements failed.
ObjectFactory_create(properties, component, type) ==
    /\ component \in (Wrappers \cap born) \cup {None}
    /\ LET call == [Call("ObjectFactory.create", None) EXCEPT !.arg = type] IN
       IF properties # "ok"
       THEN /\ last' = IF properties = "oom"
                       THEN [call EXCEPT !.exc = "OutOfMemoryError"]
                       ELSE [call EXCEPT
                                !.exc  = rethrow_as_java_exception("none", "FactoryException"),
                                !.path = "generic"]
            /\ UNCHANGED <<heap, use_count, facDb, ptr, born>>
       ELSE IF type = "other"
       THEN /\ last' = call
            /\ UNCHANGED <<heap, use_count, facDb, ptr, born>>
       ELSE LET u == IF component = None
                     THEN [threw |-> FALSE, obj |-> Null, mem |-> Mem, deref |-> {}]
                     ELSE get_and_unwrap_ptr(Mem, ptr, component)
                c == [call EXCEPT !.deref = u.deref, !.unwrapped = u.obj]
            IN
            \E x \in IF u.threw THEN {Thrown}
                     ELSE IF component = None THEN NativeObjs(u.mem) \cup {Thrown, Null}
                     ELSE NativeObjs(u.mem) \cup {Thrown} :
            IF x \in {Thrown, Null}
            THEN /\ SetMem(Drop(u.mem, u.obj))
                 /\ last' = IF x = Null
                            THEN [c EXCEPT !.exc = "OutOfMemoryError"]
                            ELSE [c EXCEPT
                                     !.exc  = rethrow_as_java_exception("none", "FactoryException"),
                                     !.path = "generic"]
                 /\ UNCHANGED <<ptr, born>>
            ELSE ReturnWrapper(c, Drop(Retain(u.mem, x), u.obj), x)
    /\ UNCHANGED <<database, pjContexts, pjs, arrayCriticalDoesCopies>>
    /\ UNCHANGED <<cascade, pj_errno, apart>>

\* Java_org_osgeo_proj_ReferencingFormat_parse.  convention: "WKT" or "PROJ"
\* for the constants the switch has a case for, "other" for the rest; text:
\* GetStringUTFChars succeeded.  Inside: e is the environment of
\* get_database_context, x the object parsed, or Thrown, warned whether
\* send_warnings left no Java exception pending.
ReferencingFormat_parse(context, convention, text) ==
    /\ context \in Contexts \cap born
    /\ LET call == [Call("ReferencingFormat.parse", context) EXCEPT !.arg = convention] IN
       IF convention = "other"
       THEN /\ last' = call
            /\ UNCHANGED <<heap, use_count, facDb, ptr, database, born>>
       ELSE \E e \in DbInputs(Mem, database, context) :
            LET g == get_database_context(Mem, database, ptr, context, e)
                c == [call EXCEPT !.dbOf = context, !.db = g.db, !.dbCreated = g.created,
                                  !.deref = g.deref, !.allocd = g.allocd]
            IN
            IF ~g.threw /\ ~text
            THEN /\ SetMem(Drop(g.mem, g.db))
                 /\ database' = g.database
                 /\ last' = [c EXCEPT !.exc = "OutOfMemoryError"]
                 /\ UNCHANGED <<ptr, born>>
            ELSE \E x \in IF g.threw THEN {Thrown} ELSE NativeObjs(g.mem) \cup {Thrown} :
            IF x = Thrown
            THEN /\ SetMem(Drop(g.mem, g.db))
                 /\ database' = g.database
                 /\ last' = [c EXCEPT
                                !.exc     = rethrow_as_java_exception(g.exc, "UnparsableException"),
                                !.path    = "generic",
                                !.pending = g.exc]
                 /\ UNCHANGED <<ptr, born>>
            ELSE \E warned \in BOOLEAN :
                 IF ~warned          \* findWrapper is called; ExceptionCheck is true after it
                 THEN /\ SetMem(Drop(g.mem, g.db))
                      /\ database' = g.database
                      /\ last' = [c EXCEPT !.exc = "addWarning", !.asked = x]
                      /\ UNCHANGED <<ptr, born>>
                 ELSE /\ database' = g.database
                      /\ ReturnWrapper(c, Drop(Retain(g.mem, x), g.db), x)
    /\ UNCHANGED <<pjContexts, pjs, arrayCriticalDoesCopies>>
    /\ UNCHANGED <<cascade, pj_errno, apart>>

\* Java_org_osgeo_proj_SharedPointer_inverse and
\* Java_org_osgeo_proj_SharedPointer_normalizeForVisualization, which differ
\* in the PROJ function called and the Java exception of the catch.
\* Inside: x is the operation PROJ returned, or Thrown when the cast to
\* CoordinateOperation or the function threw.
DerivedOperation(op, type, operation) ==
    /\ operation \in Wrappers \cap born
    /\ LET u == get_and_unwrap_ptr(Mem, ptr, operation)
           c == [Call(op, operation) EXCEPT !.deref = u.deref, !.unwrapped = u.obj]
       IN
       \E x \in IF u.threw THEN {Thrown} ELSE NativeObjs(u.mem) \cup {Thrown} :
       IF x = Thrown
       THEN /\ SetMem(Drop(u.mem, u.obj))
            /\ last' = [c EXCEPT !.exc  = rethrow_as_java_exception("none", type),
                                 !.path = "generic"]
            /\ UNCHANGED <<ptr, born>>
       ELSE ReturnWrapper(c, Drop(Retain(u.mem, x), u.obj), x)
    /\ UNCHANGED <<database, pjContexts, pjs, arrayCriticalDoesCopies>>
    /\ UNCHANGED <<cascade, pj_errno, apart>>

SharedPointer_inverse(operation) ==
    DerivedOperation("SharedPointer.inverse", "NoninvertibleTransformException", operation)

SharedPointer_normalizeForVisualization(operation) ==
    DerivedOperation("SharedPointer.normalizeForVisualization",
                     "IllegalArgumentException", operation)

\* The vectors createOperations may return: the candidates, most relevant
\* first, without repetition.
CandidateLists ==
    {<<>>} \cup {<<x>> : x \in Ops}
           \cup {s \in Ops \X Ops : s[1] # s[2]}

first_operation_last(operations) ==
    IF operations = <<>> THEN Null ELSE operations[Len(operations)]

\* operations[0].as_nullable() behind the test of operations.empty().
first_operation(operations) ==
    IF operations = <<>> THEN Null ELSE operations[1]

\* Java_org_osgeo_proj_AuthorityFactory_createOperation.  sourceCRS and
\* targetCRS may be null.  Inside: operations is the vector createOperations
\* returned (Thrown when it or an earlier step threw); the vector owns its
\* elements until the function returns.
AuthorityFactory_createOperation(f, sourceCRS, targetCRS) ==
    /\ f \in Factories \cap born
    /\ sourceCRS \in (Wrappers \cap born) \cup {None}
    /\ targetCRS \in (Wrappers \cap born) \cup {None}
    /\ LET u1 == get_and_unwrap_ptr(Mem, ptr, sourceCRS)
           u2 == IF u1.threw THEN u1 ELSE get_and_unwrap_ptr(u1.mem, ptr, targetCRS)
           u3 == IF u2.threw THEN u2 ELSE get_and_unwrap_ptr(u2.mem, ptr, f)
           held == IF u1.threw THEN <<>>
                   ELSE IF u2.threw THEN <<u1.obj>>
                   ELSE IF u3.threw THEN <<u1.obj, u2.obj>>
                   ELSE <<u1.obj, u2.obj, u3.obj>>
           Release(m) ==
                 IF Len(held) = 0 THEN m
                 ELSE IF Len(held) = 1 THEN Drop(m, held[1])
                 ELSE IF Len(held) = 2 THEN Drop(Drop(m, held[2]), held[1])
                 ELSE Drop(Drop(Drop(m, held[3]), held[2]), held[1])
           c == [Call("AuthorityFactory.createOperation", f) EXCEPT
                    !.deref     = (IF u1.threw THEN {} ELSE u1.deref)
                                  \cup (IF u2.threw THEN {} ELSE u2.deref)
                                  \cup (IF u3.threw THEN {} ELSE u3.deref),
                    !.unwrapped = u1.obj]
       IN
       \E operations \in IF u3.threw THEN {Thrown} ELSE CandidateLists \cup {Thrown} :
       IF operations = Thrown
       THEN /\ SetMem(Release(u3.mem))
            /\ last' = [c EXCEPT !.exc  = rethrow_as_java_exception("none", "FactoryException"),
                                 !.path = "generic"]
            /\ UNCHANGED <<ptr, born>>
       ELSE LET op == first_operation(operations) IN
            IF op = Null
            THEN /\ SetMem(Release(u3.mem))
                 /\ last' = [c EXCEPT !.arg = "empty"]
                 /\ UNCHANGED <<ptr, born>>
            ELSE ReturnWrapper([c EXCEPT !.arg = "list", !.operations = operations],
                               Release(Retain(u3.mem, op)), op)
    /\ UNCHANGED <<database, pjContexts, pjs, arrayCriticalDoesCopies>>
    /\ UNCHANGED <<cascade, pj_errno, apart>>

\* Java_org_osgeo_proj_Context_createPJ, called when the Java Transform t is
\* constructed, which stores the returned address in its ptr field unless
\* an exception is pending.  Inside: e is the environment of
\* get_database_context, ok whether neither the cast to CoordinateOperation
\* nor exportToPROJString threw, pj whether proj_create returned a PJ.
Context_createPJ(c, operation, t) ==
    /\ c \in Contexts \cap born
    /\ operation \in Wrappers \cap born
    /\ t \in Transforms \ born
    /\ \A v \in Transforms \ born : t[2] <= v[2]
    /\ LET u == get_and_unwrap_ptr(Mem, ptr, operation) IN
       IF u.threw
       THEN /\ last' = [Call("Context.createPJ", c) EXCEPT
                           !.exc = "TransformException", !.path = "generic",
                           !.result = <<"addr", 0>>]
            /\ UNCHANGED <<heap, use_count, facDb, ptr, database, born, pjs, pj_errno>>
       ELSE \E e \in DbInputs(u.mem, database, c) :
            LET g == get_database_context(u.mem, database, ptr, c, e) IN
            \E ok \in IF g.threw THEN {FALSE} ELSE BOOLEAN :
            IF ~ok
            THEN /\ SetMem(Drop(Drop(g.mem, g.db), u.obj))
                 /\ database' = g.database
                 /\ last' = [Call("Context.createPJ", c) EXCEPT
                                !.dbOf = c, !.db = g.db, !.dbCreated = g.created,
                                !.exc       = rethrow_as_java_exception(g.exc, "TransformException"),
                                !.path = "generic", !.pending = g.exc,
                                !.result    = <<"addr", 0>>,
                                !.deref     = u.deref \cup g.deref,
                                !.allocd    = g.allocd,
                                !.unwrapped = u.obj]
                 /\ UNCHANGED <<ptr, born, pjs, pj_errno>>
            ELSE \E pj \in BOOLEAN :
                 LET addr == IF pj THEN t[2] ELSE 0 IN
                 /\ SetMem(Drop(Drop(g.mem, g.db), u.obj))
                 /\ database' = g.database
                 /\ ptr'  = [ptr EXCEPT ![t] = addr]
                 /\ born' = born \cup {t}
                 /\ pjs'  = pjs \cup ({addr} \ {0})
                 /\ pj_errno' = IF pj THEN [pj_errno EXCEPT ![addr] = 0] ELSE pj_errno
                 /\ last' = [Call("Context.createPJ", c) EXCEPT
                                !.dbOf = c, !.db = g.db, !.dbCreated = g.created,
                                !.result    = <<"addr", addr>>,
                                !.deref     = u.deref \cup g.deref,
                                !.allocd    = g.allocd,
                                !.unwrapped = u.obj]
    /\ UNCHANGED <<pjContexts, arrayCriticalDoesCopies>>
    /\ UNCHANGED <<cascade, apart>>

\* get_PJ: the PJ address in the Transform's ptr field (may be 0).
get_PJ(p, transform) == p[transform]

\* Java_org_osgeo_proj_Transform_assign
Transform_assign(t, context) ==
    /\ t \in Transforms \cap born
    /\ context \in (Contexts \cap born) \cup {None}
    /\ LET pj == get_PJ(ptr, t) IN
       last' = IF pj # 0
               THEN [Call("Transform.assign", t) EXCEPT
                        !.result = <<"ctx", IF context # None
                                            THEN get_context(ptr, context) ELSE 0>>,
                        !.deref  = {pj}]
               ELSE Call("Transform.assign", t)
    /\ UNCHANGED <<heap, use_count, facDb, ptr, database, born, pjContexts, pjs,
                   arrayCriticalDoesCopies>>
    /\ UNCHANGED <<cascade, pj_errno, apart>>

\* The error codes proj_trans_generic may leave in the PJ.
ErrCodes == {-14, -15}

\* proj_errno_string
proj_errno_string(err) ==
    IF err = -14 THEN "latitude or longitude exceeded limits"
    ELSE "invalid x or y"

\* proj_trans_generic: native is what the transformation met, 0 for
\* none; a transformation without error leaves the error state of the PJ
\* as it was.
proj_trans_generic(e, pj, native) ==
    IF native # 0 THEN [e EXCEPT ![pj] = native] ELSE e

proj_errno(e, pj) == e[pj]

proj_errno_reset(e, pj) == [e EXCEPT ![pj] = 0]

\* Java_org_osgeo_proj_Transform_transform.  Inside: data is whether
\* GetPrimitiveArrayCritical gave the array, isCopy whether it gave a copy,
\* native what the transformation met (see proj_trans_generic), logOk see
\* log.
Transform_transform(t) ==
    /\ t \in Transforms \cap born
    /\ LET pj == get_PJ(ptr, t) IN
       IF pj = 0
       THEN /\ last' = Call("Transform.transform", t)
            /\ UNCHANGED <<arrayCriticalDoesCopies, pj_errno>>
       ELSE \E data \in BOOLEAN :
       IF ~data
       THEN /\ last' = [Call("Transform.transform", t) EXCEPT !.exc = "OutOfMemoryError"]
            /\ UNCHANGED <<arrayCriticalDoesCopies, pj_errno>>
       ELSE \E native \in {0} \cup ErrCodes :
       LET e1  == proj_trans_generic(pj_errno, pj, native)
           err == proj_errno(e1, pj)
       IN
       IF err # 0
       THEN /\ pj_errno' = proj_errno_reset(e1, pj)
            /\ last' = [Call("Transform.transform", t) EXCEPT
                           !.exc = "TransformException", !.path = "direct", !.deref = {pj},
                           !.arg = proj_errno_string(err),
                           !.native = native, !.err = err,
                           !.result = <<"done", 1>>]
            /\ UNCHANGED arrayCriticalDoesCopies
       ELSE \E isCopy \in BOOLEAN :
       IF isCopy /\ ~arrayCriticalDoesCopies
       THEN \E logOk \in BOOLEAN :
            /\ arrayCriticalDoesCopies' = TRUE
            /\ pj_errno' = e1
            /\ last' = [Call("Transform.transform", t) EXCEPT
                           !.exc     = log(logOk).exc,
                           !.escaped = log(logOk).threw,
                           !.deref   = {pj},
                           !.native  = native,
                           !.result  = <<"done", 1>>]
       ELSE /\ pj_errno' = e1
            /\ last' = [Call("Transform.transform", t) EXCEPT
                           !.deref = {pj}, !.native = native, !.result = <<"done", 1>>]
            /\ UNCHANGED arrayCriticalDoesCopies
    /\ UNCHANGED <<heap, use_count, facDb, ptr, database, born, pjContexts, pjs>>
    /\ UNCHANGED <<cascade, apart>>

Next ==
    \/ \E c \in Contexts, ok \in BOOLEAN : Context_create(c, ok)
    \/ \E c \in Contexts, fid \in BOOLEAN : Context_destroyPJ(c, fid)
    \/ \E c \in Contexts, text \in BOOLEAN : Context_createFromUserInput(c, text)
    \/ \E w \in Wrappers, property \in {"object", "unit", "other"} :
          SharedPointer_getObjectProperty(w, property)
    \/ \E w \in Wrappers, other \in Wrappers \cup {None} :
          SharedPointer_isEquivalentTo(w, other)
    \/ \E w \in Wrappers : SharedPointer_rawPointer(w)
    \/ \E w \in Wrappers : SharedPointer_release(w)
    \/ \E w \in Wrappers, context \in Contexts \cup {None}, convention \in Conventions :
          SharedPointer_format(w, context, convention)
    \/ \E f \in Factories, context \in Contexts \cup {None}, authority \in BOOLEAN :
          AuthorityFactory_newInstance(f, context, authority)
    \/ \E f \in Factories : AuthorityFactory_release(f)
    \/ \E c \in Contexts, operation \in Wrappers, t \in Transforms :
          Context_createPJ(c, operation, t)
    \/ \E t \in Transforms, context \in Contexts \cup {None} : Transform_assign(t, context)
    \/ \E t \in Transforms : Transform_transform(t)
    \/ \E t \in Transforms : Transform_destroy(t)

Spec == Init /\ [][Next]_vars

\* The calls that produce wrappers, with the AuthorityFactory life cycle.
NextFactory ==
    \/ \E c \in Contexts, ok \in BOOLEAN : Context_create(c, ok)
    \/ \E f \in Factories, context \in Contexts \cup {None}, authority \in BOOLEAN :
          AuthorityFactory_newInstance(f, context, authority)
    \/ \E f \in Factories : AuthorityFactory_release(f)
    \/ \E f \in Factories, code \in BOOLEAN : AuthorityFactory_getDescriptionText(f, code)
    \/ \E f \in Factories, type \in {"object", "unit", "other"}, code \in BOOLEAN :
          AuthorityFactory_createGeodeticObject(f, type, code)
    \/ \E w \in Wrappers, property \in {"PARAMETER_VALUE", "number", "other"} :
          SharedPointer_getNumericProperty(w, property)
    \/ \E w \in Wrappers : SharedPointer_release(w)
    \/ \E c \in Contexts, text \in BOOLEAN : Context_createFromUserInput(c, text)
    \/ \E properties \in {"ok", "oom", "thrown"}, component \in Wrappers \cup {None},
          type \in {"object", "other"} : ObjectFactory_create(properties, component, type)
    \/ \E context \in Contexts, convention \in {"WKT", "PROJ", "other"}, text \in BOOLEAN :
          ReferencingFormat_parse(context, convention, text)
    \/ \E operation \in Wrappers : SharedPointer_inverse(operation)
    \/ \E operation \in Wrappers : SharedPointer_normalizeForVisualization(operation)
    \/ \E f \in Factories, sourceCRS \in Wrappers \cup {None}, targetCRS \in Wrappers \cup {None} :
          AuthorityFactory_createOperation(f, sourceCRS, targetCRS)

SpecFactory == Init /\ [][NextFactory]_vars

\* The search of coordinate operations: a factory, a CRS obtained from it
\* and the operations between that CRS and itself, with room for the three
\* blocks this takes.
InitOperation ==
    /\ heap       = [a \in 1..MaxOpAddr |-> Free]
    /\ use_count  = [x \in Shared |-> 0]
    /\ facDb      = [f \in FacObjs |-> Null]
    /\ ptr        = [r \in Resources |-> 0]
    /\ database   = [c \in Contexts |-> 0]
    /\ born       = {}
    /\ pjContexts = {}
    /\ pjs        = {}
    /\ arrayCriticalDoesCopies = FALSE
    /\ last       = Call("init", None)
    /\ cascade    = NoCascade
    /\ pj_errno   = [a \in 1..MaxTr |-> 0]
    /\ cs         = NoCs
    /\ vec        = NoVec
    /\ str        = NoStr
    /\ race       = NoRace

NextOperation ==
    \/ \E c \in Contexts, ok \in BOOLEAN : Context_create(c, ok)
    \/ \E f \in Factories, context \in Contexts \cup {None}, authority \in BOOLEAN :
          AuthorityFactory_newInstance(f, context, authority)
    \/ \E f \in Factories, code \in BOOLEAN :
          AuthorityFactory_createGeodeticObject(f, "object", code)
    \/ \E f \in Factories, sourceCRS, targetCRS \in Wrappers \cup {None} :
          AuthorityFactory_createOperation(f, sourceCRS, targetCRS)
    \/ \E w \in Wrappers : SharedPointer_release(w)

SpecOperation == InitOperation /\ [][NextOperation]_vars


\* specific_subclass, from the point where findWrapper returned null: the
\* cascade is entered with the object rp and the tag type given by the
\* caller.
specific_subclass_enter(rp, type) ==
    /\ cascade.pc = "idle"
    /\ cascade' = [NoCascade EXCEPT !.pc = "again", !.rp = rp, !.coarse = type,
                                    !.type = type]
    /\ UNCHANGED <<heap, use_count, facDb, ptr, database, born, pjContexts, pjs,
                   arrayCriticalDoesCopies, last, pj_errno, apart>>

\* One pass through the switch at the label `again`.
specific_subclass_again ==
    /\ cascade.pc = "again"
    /\ cascade.passes < MaxPass
    /\ LET r == switch(cascade.rp, cascade.type) IN
       cascade' = [cascade EXCEPT
                      !.type   = r.type,
                      !.passes = @ + 1,
                      !.jumps  = IF r.again THEN @ + 1 ELSE @,
                      !.from   = IF r.again THEN Append(@, cascade.type) ELSE @,
                      !.pc     = IF r.again THEN "again" ELSE "wrap"]
    /\ UNCHANGED <<heap, use_count, facDb, ptr, database, born, pjContexts, pjs,
                   arrayCriticalDoesCopies, last, pj_errno, apart>>

\* The call of wrapGeodeticObject(type, ptr) after the switch.
specific_subclass_wrap ==
    /\ cascade.pc = "wrap"
    /\ cascade' = [cascade EXCEPT !.handed = cascade.type, !.pc = "done"]
    /\ UNCHANGED <<heap, use_count, facDb, ptr, database, born, pjContexts, pjs,
                   arrayCriticalDoesCopies, last, pj_errno, apart>>

\* specific_subclass returns.
specific_subclass_return ==
    /\ cascade.pc = "done"
    /\ cascade' = NoCascade
    /\ UNCHANGED <<heap, use_count, facDb, ptr, database, born, pjContexts, pjs,
                   arrayCriticalDoesCopies, last, pj_errno, apart>>

NextResolve ==
    \/ \E rp \in NativeKinds, type \in Tags : specific_subclass_enter(rp, type)
    \/ specific_subclass_again
    \/ specific_subclass_wrap
    \/ specific_subclass_return

SpecResolve == Init /\ [][NextResolve]_vars

\* The cascade is straight-line code: a pass that is enabled is taken.
FairResolve ==
    /\ SpecResolve
    /\ WF_vars(specific_subclass_again)
    /\ WF_vars(specific_subclass_wrap)
    /\ WF_vars(specific_subclass_return)

\* Java_org_osgeo_proj_CompoundCS_getDimension, from the CRS that
\* get_and_unwrap_ptr<CRS> gave.
CompoundCS_getDimension(crs) ==
    /\ cs.op = "none"
    /\ LET r == get_dimension(crs, 0) IN
       cs' = [NoCs EXCEPT
                 !.op     = "CompoundCS.getDimension",
                 !.crs    = crs,
                 !.result = IF r.threw = "none" THEN r.n ELSE 0,
                 !.exc    = IF r.threw = "none" THEN "none"
                            ELSE rethrow_as_java_exception("none", "IllegalArgumentException"),
                 !.what   = r.threw,
                 !.deepest = r.deepest]
    /\ UNCHANGED <<heap, use_count, facDb, ptr, database, born, pjContexts, pjs,
                   arrayCriticalDoesCopies, last, cascade, pj_errno, vec, str, race>>

\* Java_org_osgeo_proj_CompoundCS_getAxis, from the CompoundCRS that
\* get_and_unwrap_ptr<CompoundCRS> gave to the axis that is handed to
\* specific_subclass.
CompoundCS_getAxis(crs, dimension) ==
    /\ cs.op = "none"
    /\ crs.kind = "CompoundCRS"
    /\ IF dimension >= 0
       THEN LET r == get_axis(crs, dimension, 0) IN
            cs' = [NoCs EXCEPT
                      !.op        = "CompoundCS.getAxis",
                      !.crs       = crs,
                      !.dimension = dimension,
                      !.axis      = r.axis,
                      !.exc       = IF r.threw # "none"
                                    THEN rethrow_as_java_exception("none",
                                             "IllegalArgumentException")
                                    ELSE IF r.axis # NoAxis THEN "none"
                                    ELSE "IndexOutOfBoundsException",
                      !.what      = r.threw,
                      !.deepest   = r.deepest]
       ELSE cs' = [NoCs EXCEPT
                      !.op        = "CompoundCS.getAxis",
                      !.crs       = crs,
                      !.dimension = dimension,
                      !.exc       = "IndexOutOfBoundsException"]
    /\ UNCHANGED <<heap, use_count, facDb, ptr, database, born, pjContexts, pjs,
                   arrayCriticalDoesCopies, last, cascade, pj_errno, vec, str, race>>

\* The Java caller has taken the answer.
CompoundCS_return ==
    /\ cs.op # "none"
    /\ cs' = NoCs
    /\ UNCHANGED <<heap, use_count, facDb, ptr, database, born, pjContexts, pjs,
                   arrayCriticalDoesCopies, last, cascade, pj_errno, vec, str, race>>

NextCompound ==
    \/ \E crs \in CRSs : CompoundCS_getDimension(crs)
    \/ \E crs \in CRSs, dimension \in -1..MaxDim : CompoundCS_getAxis(crs, dimension)
    \/ CompoundCS_return

SpecCompound == Init /\ [][NextCompound]_vars

\* Java_org_osgeo_proj_SharedPointer_getVectorSize, from the object the
\* wrapper holds.
SharedPointer_getVectorSize(o, property) ==
    /\ vec.op = "none"
    /\ \E garbage \in 0..MaxVec :
          LET r == getVectorSize(o, property, garbage) IN
          vec' = [NoVec EXCEPT !.op = "SharedPointer.getVectorSize", !.object = o,
                               !.property = property, !.size = r.size, !.exc = r.exc]
    /\ UNCHANGED <<heap, use_count, facDb, ptr, database, born, pjContexts, pjs,
                   arrayCriticalDoesCopies, last, cascade, pj_errno, cs, str, race>>

\* Java_org_osgeo_proj_SharedPointer_getVectorElement, from the object the
\* wrapper holds to the element that is made a string or handed to
\* specific_subclass.
SharedPointer_getVectorElement(o, property, index) ==
    /\ vec.op = "none"
    /\ \E present \in BOOLEAN :
          LET r == getVectorElement(o, property, index, present) IN
          vec' = [NoVec EXCEPT !.op = "SharedPointer.getVectorElement", !.object = o,
                               !.property = property, !.index = index,
                               !.from = r.from, !.exc = r.exc]
    /\ UNCHANGED <<heap, use_count, facDb, ptr, database, born, pjContexts, pjs,
                   arrayCriticalDoesCopies, last, cascade, pj_errno, cs, str, race>>

\* The Java caller has taken the answer.
SharedPointer_getVector_return ==
    /\ vec.op # "none"
    /\ vec' = NoVec
    /\ UNCHANGED <<heap, use_count, facDb, ptr, database, born, pjContexts, pjs,
                   arrayCriticalDoesCopies, last, cascade, pj_errno, cs, str, race>>

NextVector ==
    \/ \E o \in VecObjects, property \in VecProperties :
          SharedPointer_getVectorSize(o, property)
    \/ \E o \in VecObjects, property \in VecProperties, index \in -1..MaxVec :
          SharedPointer_getVectorElement(o, property, index)
    \/ SharedPointer_getVector_return

SpecVector == Init /\ [][NextVector]_vars

\* An entry point with a string argument, called and run to its return.
StringCall(op, args, did) ==
    /\ str.op = "none"
    /\ str' = [op |-> op, args |-> args, events |-> did.events,
               result |-> did.result, exc |-> did.exc]
    /\ UNCHANGED <<heap, use_count, facDb, ptr, database, born, pjContexts, pjs,
                   arrayCriticalDoesCopies, last, cascade, pj_errno, cs, vec, race>>

Strings_Context_create ==
    \E paths \in {"null", "noChars", "ok"} :
       StringCall("Context.create", <<paths>>, strings_Context_create(paths))

Strings_createFromUserInput ==
    \E chars, threw \in BOOLEAN, sub \in SubOutcomes :
       StringCall("Context.createFromUserInput", <<chars, threw, sub>>,
                  strings_createFromUserInput(chars, threw, sub))

Strings_searchVectorElement ==
    \E chars \in BOOLEAN, property \in {"METHOD_PARAMETER", "OPERATION_PARAMETER", "AXIS"},
       search \in {"threw", "none", "found"}, sub \in SubOutcomes :
       StringCall("SharedPointer.searchVectorElement", <<chars, property, search, sub>>,
                  strings_searchVectorElement(chars, property, search, sub))

Strings_parse ==
    \E convention \in {"WKT", "PROJ", "other"}, db, chars, parsed, warned \in BOOLEAN,
       sub \in SubOutcomes :
       StringCall("ReferencingFormat.parse", <<convention, db, chars, parsed, warned, sub>>,
                  strings_parse(convention, db, chars, parsed, warned, sub))

Strings_newInstance ==
    \E chars, threw \in BOOLEAN :
       StringCall("AuthorityFactory.newInstance", <<chars, threw>>,
                  strings_newInstance(chars, threw))

Strings_getDescriptionText ==
    \E chars, threw \in BOOLEAN :
       StringCall("AuthorityFactory.getDescriptionText", <<chars, threw>>,
                  strings_getDescriptionText(chars, threw))

Strings_createGeodeticObject ==
    \E chars, threw \in BOOLEAN, sub \in SubOutcomes :
       StringCall("AuthorityFactory.createGeodeticObject", <<chars, threw, sub>>,
                  strings_createGeodeticObject(chars, threw, sub))

Strings_ObjectFactory_create ==
    \E n \in 1..MaxProps : \E properties \in [1..n -> PropOutcomes] :
       StringCall("ObjectFactory.create", properties,
                  strings_properties(properties, n, <<>>))

\* The Java caller has taken the answer.
Strings_return ==
    /\ str.op # "none"
    /\ str' = NoStr
    /\ UNCHANGED <<heap, use_count, facDb, ptr, database, born, pjContexts, pjs,
                   arrayCriticalDoesCopies, last, cascade, pj_errno, cs, vec, race>>

NextStrings ==
    \/ Strings_Context_create
    \/ Strings_createFromUserInput
    \/ Strings_searchVectorElement
    \/ Strings_parse
    \/ Strings_newInstance
    \/ Strings_getDescriptionText
    \/ Strings_createGeodeticObject
    \/ Strings_ObjectFactory_create
    \/ Strings_return

SpecStrings == Init /\ [][NextStrings]_vars

RaceIdle == \A t \in Threads : race.pc[t] = "idle"

\* A Java wrapper of the given class is constructed around a new native
\* resource; the wrapper the threads had before is forgotten.
Race_new(kind) ==
    /\ RaceIdle
    /\ race.next <= MaxAlloc
    /\ race' = [race EXCEPT !.kind = kind, !.addr = race.next, !.ptr = race.next,
                            !.database = 0, !.next = @ + 1, !.calls = 0]
    /\ UNCHANGED <<heap, use_count, facDb, ptr, database, born, pjContexts, pjs,
                   arrayCriticalDoesCopies, last, cascade, pj_errno, cs, vec, str>>

\* get_database_context creates the DatabaseContext of the Context and
\* stores its block in the database field.
Race_database ==
    /\ RaceIdle
    /\ race.kind = "Context" /\ race.database = 0
    /\ race.next <= MaxAlloc
    /\ race' = [race EXCEPT !.database = race.next, !.next = @ + 1]
    /\ UNCHANGED <<heap, use_count, facDb, ptr, database, born, pjContexts, pjs,
                   arrayCriticalDoesCopies, last, cascade, pj_errno, cs, vec, str>>

\* Thread t enters SharedPointer.release, Transform.destroy or
\* Context.destroyPJ on the wrapper; fid is whether destroyPJ finds the
\* database field.
Race_call(t, fid) ==
    /\ race.kind # "none" /\ race.pc[t] = "idle"
    /\ race.calls < MaxCalls
    /\ race' = [race EXCEPT
                  !.pc[t] = IF race.kind = "Context" /\ fid THEN "GetLongField database"
                            ELSE "GetLongField ptr",
                  !.calls = @ + 1,
                  !.overlapped = @ \/ \E u \in Threads \ {t} : race.pc[u] # "idle"]
    /\ UNCHANGED <<heap, use_count, facDb, ptr, database, born, pjContexts, pjs,
                   arrayCriticalDoesCopies, last, cascade, pj_errno, cs, vec, str>>

\* destroyPJ: release_shared_ptr<DatabaseContext>(env->GetLongField(context, fid))
Race_release_database(t) ==
    /\ race.pc[t] = "GetLongField database"
    /\ race' = [race EXCEPT !.freed = FreeAt(@, race.database),
                            !.pc[t] = "SetLongField database"]
    /\ UNCHANGED <<heap, use_count, facDb, ptr, database, born, pjContexts, pjs,
                   arrayCriticalDoesCopies, last, cascade, pj_errno, cs, vec, str>>

\* destroyPJ: env->SetLongField(context, fid, (jlong) 0)
Race_clear_database(t) ==
    /\ race.pc[t] = "SetLongField database"
    /\ race' = [race EXCEPT !.database = 0, !.pc[t] = "GetLongField ptr"]
    /\ UNCHANGED <<heap, use_count, facDb, ptr, database, born, pjContexts, pjs,
                   arrayCriticalDoesCopies, last, cascade, pj_errno, cs, vec, str>>

\* get_and_clear_ptr: jlong ptr = env->GetLongField(object, java_field_for_pointer)
Race_GetLongField(t) ==
    /\ race.pc[t] = "GetLongField ptr"
    /\ LET g == get_and_clear_ptr([w \in {"w"} |-> race.ptr], "w") IN
       race' = [race EXCEPT !.local[t] = g.ptr, !.pc[t] = "SetLongField ptr"]
    /\ UNCHANGED <<heap, use_count, facDb, ptr, database, born, pjContexts, pjs,
                   arrayCriticalDoesCopies, last, cascade, pj_errno, cs, vec, str>>

\* get_and_clear_ptr: env->SetLongField(object, java_field_for_pointer, (jlong) 0)
Race_SetLongField(t) ==
    /\ race.pc[t] = "SetLongField ptr"
    /\ LET g == get_and_clear_ptr([w \in {"w"} |-> race.ptr], "w") IN
       race' = [race EXCEPT !.ptr = g.fields["w"], !.pc[t] = "free"]
    /\ UNCHANGED <<heap, use_count, facDb, ptr, database, born, pjContexts, pjs,
                   arrayCriticalDoesCopies, last, cascade, pj_errno, cs, vec, str>>

\* release_shared_ptr, proj_destroy or proj_context_destroy of the address
\* get_and_clear_ptr returned, and the return of the call.
Race_free(t) ==
    /\ race.pc[t] = "free"
    /\ race' = [race EXCEPT !.freed = FreeAt(@, race.local[t]),
                            !.local[t] = 0, !.pc[t] = "idle"]
    /\ UNCHANGED <<heap, use_count, facDb, ptr, database, born, pjContexts, pjs,
                   arrayCriticalDoesCopies, last, cascade, pj_errno, cs, vec, str>>

NextRace ==
    \/ \E kind \in RaceKinds : Race_new(kind)
    \/ Race_database
    \/ \E t \in Threads, fid \in BOOLEAN : Race_call(t, fid)
    \/ \E t \in Threads : Race_release_database(t)
    \/ \E t \in Threads : Race_clear_database(t)
    \/ \E t \in Threads : Race_GetLongField(t)
    \/ \E t \in Threads : Race_SetLongField(t)
    \/ \E t \in Threads : Race_free(t)

SpecRace == Init /\ [][NextRace]_vars

\* ------------------------------------------------------------- properties
ReleaseOps == {"SharedPointer.release", "AuthorityFactory.release", "Transform.destroy"}

\* Number of indirection blocks holding the shared object x.
Blocks(h, x) == Cardinality({a \in DOMAIN h : h[a] = x})

\* C1: a release call (SharedPointer.release, AuthorityFactory.release,
\* Transform.destroy) on a wrapper whose handle is non-zero frees exactly the
\* block (or PJ) the handle names, lowers the count of the object it held by
\* one and leaves the handle zero; on a wrapper whose handle is already zero
\* it frees nothing, destroys nothing and changes no reference count.
C1_ReleaseOnce ==
    [][ last'.op \in ReleaseOps =>
          LET r == last'.self
              p == ptr[r]
          IN
          /\ ptr'[r] = 0
          /\ (p # 0 /\ r \notin Transforms) =>
                /\ last'.freed = {p}
                /\ heap[p] # Free /\ heap'[p] = Free
                /\ \A a \in Addrs \ {p} : heap'[a] = heap[a]
                /\ use_count'[heap[p]] = use_count[heap[p]] - 1
          /\ (p # 0 /\ r \in Transforms) =>
                /\ last'.destroyed = {p}
                /\ pjs' = pjs \ {p}
          /\ p = 0 =>
                /\ last'.freed = {} /\ last'.destroyed = {}
                /\ heap' = heap /\ use_count' = use_count /\ facDb' = facDb
                /\ pjs' = pjs
      ]_vars

\* A SharedPointer released a second time, with another wrapper still live.
C1_Witness ==
    /\ last.op = "SharedPointer.release"
    /\ ptr[last.self] = 0
    /\ last.freed = {}
    /\ \E w \in Wrappers \cap born : ptr[w] # 0

\* C2: when wrapGeodeticObject throws or returns null after the block was
\* allocated, that block is freed before the call returns, the call returns
\* no wrapper, no handle field names the block and the count of the native
\* object is what it was before the call.
C2_Rollback ==
    [][ (last'.made # 0 /\ last'.factory \in {Thrown, None}) =>
          /\ last'.made \in last'.freed
          /\ heap[last'.made] = Free /\ heap'[last'.made] = Free
          /\ last'.result = None
          /\ \A r \in Wrappers : ptr'[r] # last'.made
          /\ use_count'[last'.asked] = use_count[last'.asked]
      ]_vars

\* wrapGeodeticObject threw for the block of an object that has a live wrapper.
C2_Witness ==
    /\ last.made # 0
    /\ last.factory = Thrown
    /\ last.exc = "wrapGeodeticObject"
    /\ use_count[last.asked] > 0

\* C3: specific_subclass asks findWrapper with the identity of the native
\* object before it builds a block for it; when findWrapper answers with a
\* wrapper the call returns that wrapper, allocates no block, does not call
\* wrapGeodeticObject and leaves the count of the native object unchanged.
C3_FindFirst ==
    [][ /\ last'.made # 0 =>
             /\ last'.asked \in Objs
             /\ last'.found = None
             /\ heap[last'.made] = Free
        /\ last'.found \in Wrappers =>
             /\ last'.result = last'.found
             /\ ptr[last'.found] # 0 /\ heap[ptr[last'.found]] = last'.asked
             /\ last'.made = 0
             /\ last'.factory = Null
             /\ Blocks(heap', last'.asked) = Blocks(heap, last'.asked)
             /\ ptr' = ptr
             /\ use_count'[last'.asked] = use_count[last'.asked]
      ]_vars

\* findWrapper answered with a wrapper, which the call returned.
C3_Witness ==
    /\ last.found \in Wrappers
    /\ last.result = last.found
    /\ last.op = "Context.createFromUserInput"

\* C4 as stated: every operation on a wrapper whose handle is zero raises.
HandleOps ==
    {"SharedPointer.getObjectProperty", "SharedPointer.isEquivalentTo",
     "SharedPointer.rawPointer", "SharedPointer.format",
     "Transform.transform", "Transform.assign"}

C4_Original ==
    ( /\ last.op \in HandleOps
      /\ last.arg # "other"
      /\ ptr[last.self] = 0 ) => last.exc # "none"

\* C4: on a wrapper whose handle is zero, the operations that obtain the
\* native object through get_and_unwrap_ptr (reads of a handled property,
\* equivalence tests, formatting) raise a Java exception; rawPointer returns
\* 0 and Transform.transform / Transform.assign return without calling the
\* native library, none of the three raising anything.
C4_ZeroHandle ==
    (last.op \in HandleOps /\ ptr[last.self] = 0) =>
       /\ (last.op = "SharedPointer.getObjectProperty" /\ last.arg # "other")
             => last.exc = "RuntimeException"
       /\ last.op = "SharedPointer.isEquivalentTo"
             => last.exc = "IllegalArgumentException"
       /\ last.op = "SharedPointer.format"
             => last.exc \in {"IllegalArgumentException", "UnformattableObjectException"}
       /\ last.op = "SharedPointer.rawPointer"
             => last.exc = "none" /\ last.result = <<"addr", 0>>
       /\ last.op \in {"Transform.transform", "Transform.assign"}
             => last.exc = "none" /\ last.result = None /\ last.deref = {}

\* A property read on a released wrapper raised.
C4_Witness ==
    /\ last.op = "SharedPointer.getObjectProperty"
    /\ last.arg = "object"
    /\ last.self \in born
    /\ ptr[last.self] = 0
    /\ last.exc = "RuntimeException"

\* C5: no bridge call reads through a handle whose value is zero.
C5_NoZeroDeref ==
    0 \notin last.deref

\* An equivalence test on a released wrapper read through nothing.
C5_Witness ==
    /\ last.op = "SharedPointer.isEquivalentTo"
    /\ ptr[last.self] = 0
    /\ last.deref = {}
    /\ last.exc = "IllegalArgumentException"

\* C6 (the function): on any reachable memory, wrap_shared_ptr given a
\* non-zero calloc result returns that address, which was not allocated,
\* stores the object there and raises its count by exactly one; given 0 it
\* returns 0 and changes nothing.
C6_WrapOutcome ==
    \A x \in Shared, a \in calloc(Mem) :
       LET w == wrap_shared_ptr(Mem, x, a) IN
       IF a # 0
       THEN /\ w.ptr = a
            /\ heap[a] = Free
            /\ w.mem.heap = [heap EXCEPT ![a] = x]
            /\ w.mem.use = [use_count EXCEPT ![x] = @ + 1]
            /\ w.mem.facDb = facDb
       ELSE /\ w.ptr = 0
            /\ w.mem = Mem

\* C6 (in the calls): a call that built a block for a wrapper it returned
\* leaves the object in a block that was free and its count one higher; a
\* call that asked for a wrapper and built no block leaves blocks and count
\* of the object as they were.
C6_WrapInCall ==
    /\ (last'.made # 0 /\ last'.factory \in Wrappers) =>
          /\ heap[last'.made] = Free
          /\ heap'[last'.made] = last'.asked
          /\ use_count'[last'.asked] = use_count[last'.asked] + 1
    /\ (last'.asked # Null /\ last'.made = 0) =>
          /\ Blocks(heap', last'.asked) = Blocks(heap, last'.asked)
          /\ use_count'[last'.asked] = use_count[last'.asked]

\* C6: wrap either succeeds (fresh non-zero address, count plus one) or
\* fails (zero, nothing allocated, count unchanged).
C6_Wrap ==
    [][C6_WrapOutcome /\ C6_WrapInCall]_vars

\* A call built a block for a second wrapper of an object.
C6_Witness ==
    /\ last.made # 0
    /\ last.factory \in Wrappers
    /\ heap[last.made] = last.asked
    /\ use_count[last.asked] = 2

UnwrapOps ==
    {"SharedPointer.getObjectProperty", "SharedPointer.isEquivalentTo",
     "SharedPointer.rawPointer", "SharedPointer.format", "Context.createPJ"}

\* C7 (round trip): unwrapping the address a successful wrap returned gives
\* the object that was wrapped.
C7_RoundTrip ==
    \A x \in Shared, a \in calloc(Mem) \ {0} :
       unwrap_shared_ptr(wrap_shared_ptr(Mem, x, a).mem, wrap_shared_ptr(Mem, x, a).ptr) = x

\* C7 (non-consuming): a call that unwrapped a handle got the object its
\* block holds, left that block and every handle field as they were, and
\* left the count of the object equal to the number of its blocks' change.
C7_NonConsuming ==
    (last'.op \in UnwrapOps /\ last'.unwrapped # Null) =>
        LET x == last'.unwrapped IN
        /\ \E a \in last'.deref : heap[a] = x /\ heap'[a] = x
        /\ \A r \in born : ptr'[r] = ptr[r]
        /\ use_count'[x] - use_count[x] = Blocks(heap', x) - Blocks(heap, x)

\* C7: unwrap(wrap(x)) is x, and unwrap does not consume the handle.
C7_Unwrap ==
    [][C7_RoundTrip /\ C7_NonConsuming]_vars

\* An equivalence test unwrapped two live handles and completed.
C7_Witness ==
    /\ last.op = "SharedPointer.isEquivalentTo"
    /\ last.exc = "none"
    /\ last.unwrapped \in Objs
    /\ Cardinality(last.deref) = 2
    /\ use_count[last.unwrapped] = Blocks(heap, last.unwrapped)

\* The handle fields that hold the address of an indirection block.
BlockFields ==
    {<<"ptr", r>> : r \in Wrappers \cup Factories}
    \cup {<<"database", c>> : c \in Contexts}

FieldValue(f) ==
    IF f[1] = "ptr" THEN ptr[f[2]] ELSE database[f[2]]

\* C8: no two handle fields hold the address of the same block.
C8_NoSharedBlock ==
    \A f \in BlockFields, g \in BlockFields :
       (f # g /\ FieldValue(f) # 0) => FieldValue(f) # FieldValue(g)

\* Two live wrappers of the same native object, each with its own block.
C8_Witness ==
    \E v \in Wrappers, w \in Wrappers :
       /\ v # w
       /\ ptr[v] # 0 /\ ptr[w] # 0
       /\ heap[ptr[v]] = heap[ptr[w]]

\* C9: a ptr field of a constructed object changes only to zero, in a
\* release or destroy call on that object; a database field changes only
\* to zero in destroyPJ of its Context, or from zero to the address of a
\* block allocated in the same call.
C9_FieldWrites ==
    [][ /\ \A r \in born :
              ptr'[r] # ptr[r] =>
                 /\ ptr'[r] = 0
                 /\ last'.self = r
                 /\ last'.op \in ReleaseOps \cup {"Context.destroyPJ"}
        /\ \A c \in Contexts :
              database'[c] # database[c] =>
                 \/ /\ database'[c] = 0
                    /\ last'.op = "Context.destroyPJ"
                    /\ last'.self = c
                 \/ /\ database[c] = 0
                    /\ database'[c] \in last'.allocd
                    /\ heap[database'[c]] = Free
      ]_vars

\* A call stored the address of the database block it created.
C9_Witness ==
    /\ last.op = "SharedPointer.format"
    /\ \E c \in Contexts : database[c] # 0 /\ database[c] \in last.allocd

\* C10: after a destroyPJ both fields of the Context are zero, and a
\* destroyPJ that directly follows a destroyPJ of the same Context releases
\* no block and destroys no PJ_CONTEXT.
C10_DestroyIdempotent ==
    [][ last'.op = "Context.destroyPJ" =>
          LET c == last'.self IN
          /\ ptr'[c] = 0
          /\ database'[c] = 0
          /\ (last.op = "Context.destroyPJ" /\ last.self = c) =>
                last'.freed = {} /\ last'.destroyed = {}
      ]_vars

\* Position of the event e in the sequence q, 0 when absent.
At(q, e) ==
    IF \E i \in 1..Len(q) : q[i] = e
    THEN CHOOSE i \in 1..Len(q) : q[i] = e /\ \A j \in 1..(i - 1) : q[j] # e
    ELSE 0

\* C11: in a destroyPJ call the database block is released and the database
\* field zeroed before proj_context_destroy is called, and a PJ_CONTEXT is
\* never destroyed by a call that leaves the database field of its Context
\* non-zero, whether or not the lookup of the database field succeeded.
C11_DestroyOrder ==
    [][ last'.op = "Context.destroyPJ" =>
          LET c == last'.self
              q == last'.order
          IN
          /\ At(q, "proj_context_destroy") # 0
          /\ database[c] # 0 =>
                /\ At(q, "release_shared_ptr") # 0
                /\ At(q, "release_shared_ptr") < At(q, "SetLongField database")
                /\ At(q, "SetLongField database") < At(q, "proj_context_destroy")
                /\ database[c] \in last'.freed
          /\ last'.destroyed # {} => database'[c] = 0
      ]_vars

\* C12 as stated: of two successive calls that obtain the database of the
\* same Context, with no call in between, the second returns the database
\* the first returned and creates none.
C12_Original ==
    [][ ( /\ last.dbOf \in Contexts /\ last'.dbOf = last.dbOf
          /\ last.db # Null /\ last'.db # Null )
        => (last'.db = last.db /\ ~last'.dbCreated)
      ]_vars

\* C12: a call that obtains the database of a Context whose database field
\* is non-zero returns the database held by the block the field names,
\* creates none and leaves the field as it was; a database is created only
\* by a call that read the field as zero, which stores the address of the
\* new block in the field, or leaves the field zero when calloc failed (the
\* database is then returned but not cached).  So two successive calls
\* return the same database whenever the first left the field non-zero.
C12_Cached ==
    [][ (last'.dbOf \in Contexts /\ last'.db # Null) =>
          LET c == last'.dbOf IN
          /\ database[c] # 0 =>
                /\ last'.db = heap[database[c]]
                /\ ~last'.dbCreated
                /\ database'[c] = database[c]
                /\ (last.dbOf = c /\ last.db # Null) => last'.db = last.db
          /\ database[c] = 0 =>
                /\ last'.dbCreated
                /\ \/ database'[c] # 0 /\ database'[c] \in last'.allocd
                                      /\ heap'[database'[c]] = last'.db
                   \/ database'[c] = 0
                      /\ Blocks(heap', last'.db) = Blocks(heap, last'.db)
      ]_vars

\* A call got the cached database of a Context from a call before it.
C12_Witness ==
    /\ last.dbOf \in Contexts
    /\ last.db # Null
    /\ ~last.dbCreated
    /\ database[last.dbOf] # 0
    /\ heap[database[last.dbOf]] = last.db

\* C13: whenever a native failure is translated while a managed exception
\* is pending, on any translation path (generic rethrow, catalog-miss
\* rethrow, invalid-parameter-type error, direct error), the exception
\* pending after the call is the one that was pending before the
\* translation.
C13_PendingKept ==
    last.path # "none" /\ last.pending # "none" => last.exc = last.pending

\* C14: no C++ exception leaves a bridge entry point: every exception
\* thrown during a call, one thrown by log included, is caught within the
\* call.
C14_NoEscape ==
    ~last.escaped

\* The calls that return a wrapper; a createGeodeticObject call for a unit
\* of measurement returns a unit instead and is not one of them.
WrapperOps ==
    {"Context.createFromUserInput", "AuthorityFactory.createGeodeticObject",
     "ObjectFactory.create", "ReferencingFormat.parse", "SharedPointer.inverse",
     "SharedPointer.normalizeForVisualization", "AuthorityFactory.createOperation"}

WrapperCall(l) == l.op \in WrapperOps /\ l.result[1] # "unit"

\* The wrapper returned holds a block of the object it was asked for.
ValidWrapper(l) ==
    /\ l.result \in Wrappers
    /\ ptr[l.result] \in Addrs
    /\ heap[ptr[l.result]] = l.asked

C16_Subtree ==
    /\ cascade.pc # "idle" /\ cascade.coarse # "ANY" =>
          cascade.coarse \in Ancestors(cascade.type)
    /\ cascade.pc = "done" => cascade.handed = cascade.type

\* A geocentric CRS entered under the CRS tag was handed over as
\* GEOCENTRIC_CRS, two levels below the coarse tag.
C16_Witness ==
    /\ cascade.pc = "done"
    /\ cascade.coarse = "COORDINATE_REFERENCE_SYSTEM"
    /\ cascade.type = "GEOCENTRIC_CRS"
    /\ cascade.handed = "GEOCENTRIC_CRS"

\* The object is of the category of the tag.
Satisfies(rp, t) ==
    \/ t = "ANY"
    \/ t = "GEOCENTRIC_CRS" /\ dynamic_cast("GeodeticCRS", rp) /\ rp.geocentric
    \/ \E r \in TypeTable : r[1] = t /\ dynamic_cast(r[2], rp)

\* The object satisfies t and none of the tags directly below t.
MostSpecific(rp, t) ==
    /\ Satisfies(rp, t)
    /\ \A c \in Tags \ {t} : Parent(c) = t => ~Satisfies(rp, c)

\* The tag the cascade ends with, as a function of the object and the tag
\* it is entered with.
RECURSIVE resolveN(_, _, _)
resolveN(rp, type, n) ==
    IF n = 0 THEN type
    ELSE LET r == switch(rp, type) IN
         IF r.again THEN resolveN(rp, r.type, n - 1) ELSE r.type

resolve(rp, type) == resolveN(rp, type, MaxPass)

Geocentric(rp) == dynamic_cast("GeodeticCRS", rp) /\ rp.geocentric

CrsOrder ==
    << <<"CompoundCRS",    "COMPOUND_CRS">>,
       <<"ProjectedCRS",   "PROJECTED_CRS">>,
       <<"GeographicCRS",  "GEOGRAPHIC_CRS">>,
       <<"VerticalCRS",    "VERTICAL_CRS">>,
       <<"TemporalCRS",    "TEMPORAL_CRS">>,
       <<"EngineeringCRS", "ENGINEERING_CRS">>,
       <<"GeodeticCRS",    "GEODETIC_CRS">> >>

\* C18: a pass through the switch under COORDINATE_REFERENCE_SYSTEM gives
\* the tag of the first class of CrsOrder the object is an instance of,
\* GEODETIC_CRS becoming GEOCENTRIC_CRS for a geocentric object; the tag is
\* unchanged when the object is of none of them.  A geographic CRS, which
\* is also a GeodeticCRS, therefore never gives GEODETIC_CRS or
\* GEOCENTRIC_CRS.
C18_CrsOrder ==
    [][ cascade.pc = "again" /\ cascade.type = "COORDINATE_REFERENCE_SYSTEM"
        /\ cascade' # cascade =>
          LET rp    == cascade.rp
              match == {i \in 1..Len(CrsOrder) : CrsOrder[i][1] \in rp.is}
          IN
          /\ cascade'.pc = "wrap"
          /\ match = {} => cascade'.type = "COORDINATE_REFERENCE_SYSTEM"
          /\ match # {} =>
                LET first == CHOOSE i \in match : \A j \in match : i <= j IN
                cascade'.type = IF first = Len(CrsOrder) /\ rp.geocentric
                                THEN "GEOCENTRIC_CRS" ELSE CrsOrder[first][2]
          /\ "GeographicCRS" \in rp.is =>
                cascade'.type \notin {"GEODETIC_CRS", "GEOCENTRIC_CRS"}
      ]_vars

\* A geographic CRS, instance of GeographicCRS and of GeodeticCRS, was
\* resolved under COORDINATE_REFERENCE_SYSTEM to GEOGRAPHIC_CRS.
C18_Witness ==
    /\ cascade.pc = "done"
    /\ cascade.coarse = "COORDINATE_REFERENCE_SYSTEM"
    /\ {"GeographicCRS", "GeodeticCRS"} \subseteq cascade.rp.is
    /\ cascade.type = "GEOGRAPHIC_CRS"

\* C19: every cascade that is entered ends, after at most two passes
\* through the switch and at most one `goto again`, which was taken from
\* the ANY case and with a tag other than ANY.
C19_Terminates ==
    (cascade.pc = "again" /\ cascade.passes = 0) ~>
       /\ cascade.pc = "done"
       /\ cascade.passes <= 2
       /\ cascade.jumps <= 1
       /\ cascade.jumps = 1 =>
             /\ cascade.from = <<"ANY">>
             /\ cascade.coarse = "ANY"
             /\ cascade.type # "ANY"

\* A cascade entered with ANY for an ellipsoid took the jump once and
\* ended after its second pass.
C19_Witness ==
    /\ cascade.pc = "done"
    /\ cascade.coarse = "ANY"
    /\ cascade.from = <<"ANY">>
    /\ cascade.passes = 2
    /\ cascade.type = "ELLIPSOID"

\* C20: a catalog lookup that misses (createGeodeticObject or
\* getDescriptionText catching NoSuchAuthorityCodeException) returns no
\* wrapper, allocates no Indirection Block and leaves an exception
\* pending, and the NoSuchAuthorityCodeException it raises is built from
\* the authority and the code of the failed lookup.  A call in which
\* FindClass, GetMethodID or NewObject fails leaves the error of that JNI
\* call pending instead (line 2342) and is not held against the claim.
C20_CatalogMiss ==
    last.path = "catalog" =>
       /\ last.op \in {"AuthorityFactory.createGeodeticObject",
                       "AuthorityFactory.getDescriptionText"}
       /\ last.result = None
       /\ last.made = 0
       /\ last.allocd = {}
       /\ last.exc # "none"
       /\ last.exc = "NoSuchAuthorityCodeException" =>
              last.info = <<"getAuthority", "getAuthorityCode">>

\* C21 as stated: format of an object that does not implement the
\* interface of the grammar selected by the convention returns with
\* UnformattableObjectException pending.
C21_Original ==
    last.op = "SharedPointer.format" /\ last.info = <<"notExportable">> =>
       last.exc = "UnformattableObjectException"

\* C21 (amended): for each of the three grammars, format of an object that
\* does not implement the interface of the grammar returns null with no
\* exception pending and without asking for the database context;
\* UnformattableObjectException is raised only through the catch clause,
\* when unwrapping, the database context or the export itself throws.
C21_NullWhenNotExportable ==
    last.op = "SharedPointer.format" =>
       /\ last.info = <<"notExportable">> =>
              /\ last.arg \in {"WKT", "JSON", "PROJ"}
              /\ last.exc = "none"
              /\ last.result = None
              /\ last.dbOf = None
              /\ last.allocd = {}
       /\ last.exc = "UnformattableObjectException" =>
              last.path = "generic" /\ last.info = <<>>

\* A JSON format of a live object that is not IJSONExportable returned null
\* with nothing pending.
C21_Witness ==
    /\ last.op = "SharedPointer.format"
    /\ last.info = <<"notExportable">>
    /\ last.arg = "JSON"
    /\ last.unwrapped \in Objs
    /\ last.exc = "none"
    /\ last.result = None

\* C22: a transform whose native call leaves a non-zero error code raises
\* TransformException with the message of that code and resets the error
\* state of the PJ; a transform whose native call meets no error, one
\* that follows a failed transform on the same PJ included, leaves no
\* exception pending.
C22_TransformError ==
    last.op = "Transform.transform" /\ last.result = <<"done", 1>> =>
       /\ last.native # 0 =>
              /\ last.exc = "TransformException"
              /\ last.arg = proj_errno_string(last.native)
              /\ \A pj \in last.deref : pj_errno[pj] = 0
       /\ last.native = 0 => last.exc = "none"

\* A createOperation call that obtained the vector of candidates.
Searched(l) ==
    l.op = "AuthorityFactory.createOperation" /\ l.arg \in {"empty", "list"}

\* C23 as stated: createOperation with a non-empty vector returns a wrapper
\* of its first element, with an empty vector it returns null with no
\* exception pending; at most one block is allocated and none for a
\* candidate that is not returned.
C23_Original ==
    Searched(last) =>
       /\ last.arg = "empty" =>
              last.result = None /\ last.exc = "none" /\ last.allocd = {}
       /\ last.arg = "list" =>
              /\ last.result \in Wrappers
              /\ ptr[last.result] \in DOMAIN heap
              /\ heap[ptr[last.result]] = last.operations[1]
              /\ last.allocd \subseteq {ptr[last.result]}

\* C23 (amended): with an empty vector createOperation returns null with
\* no exception pending and allocates nothing.  With a non-empty vector it
\* asks specific_subclass for the first element and for no other, and
\* either returns a wrapper whose block holds the first element, or
\* returns null after findWrapper or wrapGeodeticObject threw, calloc gave
\* no block or wrapGeodeticObject returned null; at most one block is
\* allocated, it holds the first element, and it is freed again when no
\* wrapper is returned.
C23_FirstCandidate ==
    Searched(last) =>
       /\ last.arg = "empty" =>
              last.result = None /\ last.exc = "none" /\ last.allocd = {}
       /\ last.arg = "list" =>
              /\ last.asked = last.operations[1]
              /\ Cardinality(last.allocd) <= 1
              /\ \A x \in Ops \ {last.operations[1]} :
                    use_count[x] = Blocks(heap, x)
              /\ \/ /\ last.result \in Wrappers
                    /\ last.exc = "none"
                    /\ ptr[last.result] \in DOMAIN heap
                    /\ heap[ptr[last.result]] = last.operations[1]
                    /\ last.allocd \subseteq {ptr[last.result]}
                 \/ /\ last.result = None
                    /\ last.allocd \subseteq last.freed
                    /\ \A a \in last.allocd : heap[a] = Free
                    /\ \/ last.exc \in {"findWrapper", "wrapGeodeticObject"}
                       \/ last.exc = "none" /\ last.found = None /\ last.made = 0
                       \/ last.exc = "none" /\ last.made # 0 /\ last.factory = None

\* createOperation got two candidates and returned a new wrapper of the
\* first one; the second one is in no block.
C23_Witness ==
    /\ Searched(last)
    /\ Len(last.operations) = 2
    /\ last.result \in Wrappers
    /\ last.made # 0
    /\ heap[last.made] = last.operations[1]
    /\ Blocks(heap, last.operations[2]) = 0

\* C24: AuthorityFactory.newInstance either returns a non-zero address
\* with no exception pending, or leaves behind no block holding an
\* AuthorityFactory and every DatabaseContext with the owners it had before
\* the call (one more when this call created it and cached it in the
\* Context).
C24_NoLeak ==
    [][last'.op = "AuthorityFactory.newInstance" =>
          \/ last'.result[2] # 0 /\ last'.exc = "none"
          \/ /\ \A a \in DOMAIN heap : heap'[a] \in FacObjs => heap'[a] = heap[a]
             /\ \A d \in Dbs :
                   use_count'[d] = use_count[d] +
                      (IF \E c \in Contexts : /\ database'[c] # database[c]
                                              /\ database'[c] \in DOMAIN heap
                                              /\ heap'[database'[c]] = d
                       THEN 1 ELSE 0)]_vars

\* The axes of a CRS: those of a single CRS (or of the single base of a
\* BoundCRS), and for a compound CRS the axes of its components one after
\* the other, in the order of the components.
RECURSIVE AxesOf(_), AxesFrom(_, _)
AxesOf(crs) ==
    IF crs.kind = "CompoundCRS" THEN AxesFrom(crs.components, 1) ELSE crs.axes

AxesFrom(components, i) ==
    IF i > Len(components) THEN <<>>
    ELSE AxesOf(components[i]) \o AxesFrom(components, i + 1)

\* C25: for a compound CRS that getDimension counts, getAxis(crs, d) with
\* 0 <= d < getDimension(crs) returns element d of the axes of its
\* components taken in order, nested compound CRS expanded; with d < 0 or
\* d >= getDimension(crs) it raises IndexOutOfBoundsException.
C25_Axis ==
    cs.op = "CompoundCS.getAxis" /\ get_dimension(cs.crs, 0).threw = "none" =>
       IF 0 <= cs.dimension /\ cs.dimension < get_dimension(cs.crs, 0).n
       THEN cs.exc = "none" /\ cs.axis = AxesOf(cs.crs)[cs.dimension + 1]
       ELSE cs.exc = "IndexOutOfBoundsException"

\* The axes counted before the first component, in the order of the
\* visit, that is neither a single CRS (or a BoundCRS of one) nor a
\* compound CRS, and whether there is such a component.
RECURSIVE UpToUnknown(_), UpToUnknownFrom(_, _)
UpToUnknown(crs) ==
    IF crs.kind = "CompoundCRS" THEN UpToUnknownFrom(crs.components, 1)
    ELSE IF as_single_crs(crs) # NoCrs THEN [n |-> Len(crs.axes), unknown |-> FALSE]
    ELSE [n |-> 0, unknown |-> TRUE]

UpToUnknownFrom(components, i) ==
    IF i > Len(components) THEN [n |-> 0, unknown |-> FALSE]
    ELSE LET a == UpToUnknown(components[i]) IN
         IF a.unknown THEN a
         ELSE LET b == UpToUnknownFrom(components, i + 1) IN
              [n |-> a.n + b.n, unknown |-> b.unknown]

\* C26: getDimension and getAxis return for every CRS with the depth
\* counter never beyond the limit of 10, reaching the limit raises
\* IllegalArgumentException, and so does a component that is neither a
\* single CRS (directly or as the base of a BoundCRS) nor a compound CRS
\* when the visit comes to it.
C26_Bounded ==
    cs.op # "none" =>
       /\ cs.deepest <= DepthLimit
       /\ cs.deepest = DepthLimit => cs.exc = "IllegalArgumentException"
       /\ cs.op = "CompoundCS.getDimension" /\ UpToUnknown(cs.crs).unknown =>
              cs.exc = "IllegalArgumentException"
       /\ /\ cs.op = "CompoundCS.getAxis"
          /\ UpToUnknown(cs.crs).unknown
          /\ cs.dimension >= UpToUnknown(cs.crs).n
          => cs.exc = "IllegalArgumentException"

\* C27: for every property other than SOURCE_TARGET_CRS and every object,
\* when getVectorElement returns an element at some index, getVectorSize
\* returns the length of the vector that element is taken from.
C27_SameCases ==
    vec.op = "SharedPointer.getVectorSize" /\ vec.property # "SOURCE_TARGET_CRS" =>
       \A index \in 0..(MaxVec - 1), present \in BOOLEAN :
          LET e == getVectorElement(vec.object, vec.property, index, present) IN
          e.from # "none" =>
             vec.exc = "none" /\ vec.size = VectorLength(vec.object, e.from)

\* C28: a Context whose ptr field is zero because it was destroyed has a
\* zero database field: destroyPJ leaves both fields zero, and no later
\* call on the destroyed Context creates a DatabaseContext and caches it
\* in the database field.
C28_DestroyedHoldsNothing ==
    [][ /\ last'.op = "Context.destroyPJ" =>
              ptr'[last'.self] = 0 /\ database'[last'.self] = 0
        /\ \A c \in Contexts \cap born :
              ( /\ last.op = "Context.destroyPJ" /\ last.self = c
                /\ last.destroyed # {} /\ ptr[c] = 0 /\ database[c] = 0 )
              => (ptr'[c] = 0 => database'[c] = 0)
      ]_vars

\* C29: when an entry point returns, whatever it returns or raises, every
\* GetStringUTFChars that succeeded has been followed by exactly one
\* ReleaseStringUTFChars: no characters are released that are not held,
\* and none are held at the return.
C29_StringsReleased ==
    str.op # "none" =>
       /\ \A n \in 0..Len(str.events) : Held(str.events, n) \in {0, 1}
       /\ Held(str.events, Len(str.events)) = 0

\* C30 as stated: whatever the interleaving of the threads that release
\* or destroy the same wrapper, no native resource is freed twice.
C30_Original ==
    \A a \in 1..MaxAlloc : race.freed[a] <= 1

\* C30: as long as no release or destroy call on a wrapper was entered
\* while another one was running, no native resource is freed twice.
C30_FreedOnceInTurn ==
    ~race.overlapped => \A a \in 1..MaxAlloc : race.freed[a] <= 1

\* Two calls made in turn on the same wrapper have returned and its
\* resource was freed once.
C30_Witness ==
    /\ ~race.overlapped /\ RaceIdle
    /\ race.calls >= 2
    /\ race.addr # 0 /\ race.freed[race.addr] = 1

====
